---- MODULE Spec2Model ----
(***************************************************************************)
(* Model of the compliance framework: the rule validator, the policy       *)
(* validator, the policy parser, the audit logger and the compliance       *)
(* service (the policy registry).                                          *)
(***************************************************************************)
EXTENDS Integers, Sequences, FiniteSets

VARIABLES
  now,         \* the wall clock read by `new Date()` / Date.now()
  policies,    \* ComplianceService.policies: the Map, in insertion order
  logs,        \* AuditLogger.logs
  maxLogSize,  \* AuditLogger.maxLogSize
  inserted,    \* history: every entry ever pushed by AuditLogger.log, in order
  last,        \* the last call made on the service and how it ended
  returned,    \* the record handed to the last validating call and what it returned
  vPolicy,     \* PolicyValidator: the policy handed to validatePolicy
  vData,       \* PolicyValidator: the record handed to validatePolicy
  vReport,     \* PolicyValidator: the report under study
  vVerdict,    \* PolicyValidator: what isPolicyPassing returned for vReport
  vPc,         \* PolicyValidator: "idle", "start", "reported", "judged" or
               \* "filtered";
               \* RuleValidator: "condition" or "evaluated"
  vCondition,  \* RuleValidator: the condition handed to evaluateCondition
  vResult      \* RuleValidator: what evaluateCondition returned for vCondition;
               \* PolicyValidator: what getFailedRules returned for vReport;
               \* PolicyParser: what parseRule returned for the raw rule vData

vars == <<now, policies, logs, maxLogSize, inserted, last, returned,
          vPolicy, vData, vReport, vVerdict, vPc, vCondition, vResult>>

svcVars == <<now, policies, logs, maxLogSize, inserted, last, returned>>
valVars == <<vPolicy, vData, vReport, vVerdict, vPc, vCondition, vResult>>

----------------------------------------------------------------------------
(* Bounds of the model *)

\* the largest clock value
MaxTime == 1
\* the largest capacity given to the AuditLogger constructor
MaxCapacity == 2
\* the number of service calls that write an audit entry in one run
MaxLogCalls == 2
\* the number of direct AuditLogger.log calls of one run of the logger alone
MaxLoggerCalls == 3
\* the largest number of rules of a policy handed to the validator
MaxRules == 2

----------------------------------------------------------------------------
(* JavaScript values: a tagged union with one layout.                      *)
(* s holds a string's characters (or a pattern's literal source), o an     *)
(* object's own properties as <<key, value>> pairs, a an array's elements. *)

Undefined == [kind |-> "undefined", b |-> FALSE, n |-> 0, s |-> <<>>, o |-> {}, a |-> <<>>]
Null      == [kind |-> "null",      b |-> FALSE, n |-> 0, s |-> <<>>, o |-> {}, a |-> <<>>]
Bool(x)   == [kind |-> "boolean",   b |-> x,     n |-> 0, s |-> <<>>, o |-> {}, a |-> <<>>]
Num(x)    == [kind |-> "number",    b |-> FALSE, n |-> x, s |-> <<>>, o |-> {}, a |-> <<>>]
Str(x)    == [kind |-> "string",    b |-> FALSE, n |-> 0, s |-> x,    o |-> {}, a |-> <<>>]
Obj(x)    == [kind |-> "object",    b |-> FALSE, n |-> 0, s |-> <<>>, o |-> x,  a |-> <<>>]
Arr(x)    == [kind |-> "array",     b |-> FALSE, n |-> 0, s |-> <<>>, o |-> {}, a |-> x]
RegExp(x) == [kind |-> "regexp",    b |-> FALSE, n |-> 0, s |-> x,    o |-> {}, a |-> <<>>]
\* a Date object holding the instant x
DateOf(x) == [kind |-> "date",      b |-> FALSE, n |-> x, s |-> <<>>, o |-> {}, a |-> <<>>]

\* typeof v
TypeOf(v) ==
  CASE v.kind = "undefined" -> "undefined"
    [] v.kind = "boolean"   -> "boolean"
    [] v.kind = "number"    -> "number"
    [] v.kind = "string"    -> "string"
    [] OTHER                -> "object"

\* a === b: primitives by type and value, objects and patterns by reference
\* (a record's object and a condition's value are never the same object)
StrictEquals(a, b) ==
  /\ a.kind = b.kind
  /\ CASE a.kind = "undefined" -> TRUE
       [] a.kind = "null"      -> TRUE
       [] a.kind = "boolean"   -> a.b = b.b
       [] a.kind = "number"    -> a.n = b.n
       [] a.kind = "string"    -> a.s = b.s
       [] OTHER                -> FALSE

\* obj[key]
Get(obj, key) ==
  IF \E p \in obj.o : p[1] = key
    THEN (CHOOSE p \in obj.o : p[1] = key)[2]
    ELSE Undefined

\* hay.includes(needle)
Includes(hay, needle) ==
  \E i \in 0..(Len(hay) - Len(needle)) : SubSeq(hay, i + 1, i + Len(needle)) = needle

\* pattern.test(str), for the patterns of the model: a literal source
RegExpTest(pattern, str) == Includes(str, pattern.s)

\* field.split('.')
RECURSIVE SplitFrom(_, _)
SplitFrom(field, part) ==
  IF field = <<>> THEN <<part>>
  ELSE IF Head(field) = "." THEN <<part>> \o SplitFrom(Tail(field), <<>>)
  ELSE SplitFrom(Tail(field), Append(part, Head(field)))

Split(field) == SplitFrom(field, <<>>)

----------------------------------------------------------------------------
(* RuleValidator *)

RECURSIVE WalkParts(_, _)
WalkParts(value, parts) ==
  IF parts = <<>> THEN value
  ELSE IF value.kind \in {"null", "undefined"} THEN Undefined
  ELSE IF TypeOf(value) = "object" THEN WalkParts(Get(value, Head(parts)), Tail(parts))
  ELSE Undefined

\* (mutant) an absent field read as the empty string
getFieldValueDefaultingToEmpty(data, field) ==
  LET value == WalkParts(data, Split(field))
  IN IF value = Undefined THEN Str(<<>>) ELSE value

getFieldValue(data, field) == WalkParts(data, Split(field))

\* the switch on condition.operator
applyOperator(operator, fieldValue, value) ==
  CASE operator = "equals"    -> StrictEquals(fieldValue, value)
    [] operator = "notEquals" -> ~StrictEquals(fieldValue, value)
    [] operator = "contains"  ->
         IF TypeOf(fieldValue) = "string" /\ TypeOf(value) = "string"
           THEN Includes(fieldValue.s, value.s) ELSE FALSE
    [] operator = "notContains" ->
         IF TypeOf(fieldValue) = "string" /\ TypeOf(value) = "string"
           THEN ~Includes(fieldValue.s, value.s) ELSE TRUE
    [] operator = "greaterThan" ->
         IF TypeOf(fieldValue) = "number" /\ TypeOf(value) = "number"
           THEN fieldValue.n > value.n ELSE FALSE
    [] operator = "lessThan" ->
         IF TypeOf(fieldValue) = "number" /\ TypeOf(value) = "number"
           THEN fieldValue.n < value.n ELSE FALSE
    [] operator = "matches" ->
         IF TypeOf(fieldValue) = "string" /\ value.kind = "regexp"
           THEN RegExpTest(value, fieldValue.s) ELSE FALSE
    [] OTHER -> FALSE

\* (mutant) notContains failing whenever either side is not a string
evaluateConditionNotContainsNeedingStrings(condition, data) ==
  LET fieldValue == getFieldValue(data, condition.field)
  IN IF /\ condition.operator = "notContains"
        /\ ~(TypeOf(fieldValue) = "string" /\ TypeOf(condition.value) = "string")
       THEN FALSE
       ELSE applyOperator(condition.operator, fieldValue, condition.value)

\* (mutant) notEquals never satisfied by an absent field
evaluateConditionAbsentNeverDiffers(condition, data) ==
  LET fieldValue == getFieldValue(data, condition.field)
  IN IF condition.operator = "notEquals" /\ fieldValue = Undefined
       THEN FALSE
       ELSE applyOperator(condition.operator, fieldValue, condition.value)

\* (mutant) lessThan comparing without looking at the type of the field value
evaluateConditionComparingAnyField(condition, data) ==
  LET fieldValue == getFieldValue(data, condition.field)
  IN IF condition.operator = "lessThan"
       THEN TypeOf(condition.value) = "number" /\ fieldValue.n < condition.value.n
       ELSE applyOperator(condition.operator, fieldValue, condition.value)

evaluateCondition(condition, data) ==
  applyOperator(condition.operator, getFieldValue(data, condition.field), condition.value)

\* (mutant) validateRule evaluating the conditions of a disabled rule too
validateRuleIgnoringEnabled(rule, data) ==
  LET allConditionsPassed ==
        \A i \in 1..Len(rule.conditions) : evaluateCondition(rule.conditions[i], data)
  IN [ruleId |-> rule.id, ruleName |-> rule.name, passed |-> allConditionsPassed,
      severity |-> rule.severity,
      message |-> IF ~rule.enabled THEN <<"Rule is disabled">>
                  ELSE IF allConditionsPassed
                    THEN <<"Rule", rule.name, "passed">>
                    ELSE <<"Rule", rule.name, "failed", rule.description>>]

\* (mutant) validateRule passing a rule as soon as one condition holds
validateRuleAnyCondition(rule, data) ==
  IF ~rule.enabled
    THEN [ruleId |-> rule.id, ruleName |-> rule.name, passed |-> TRUE,
          severity |-> rule.severity, message |-> <<"Rule is disabled">>]
    ELSE LET someConditionPassed ==
               \E i \in 1..Len(rule.conditions) : evaluateCondition(rule.conditions[i], data)
         IN [ruleId |-> rule.id, ruleName |-> rule.name, passed |-> someConditionPassed,
             severity |-> rule.severity,
             message |-> IF someConditionPassed
                           THEN <<"Rule", rule.name, "passed">>
                           ELSE <<"Rule", rule.name, "failed", rule.description>>]

validateRule(rule, data) ==
  IF ~rule.enabled
    THEN [ruleId |-> rule.id, ruleName |-> rule.name, passed |-> TRUE,
          severity |-> rule.severity, message |-> <<"Rule is disabled">>]
    ELSE LET allConditionsPassed ==
               \A i \in 1..Len(rule.conditions) : evaluateCondition(rule.conditions[i], data)
         IN [ruleId |-> rule.id, ruleName |-> rule.name, passed |-> allConditionsPassed,
             severity |-> rule.severity,
             message |-> IF allConditionsPassed
                           THEN <<"Rule", rule.name, "passed">>
                           ELSE <<"Rule", rule.name, "failed", rule.description>>]

----------------------------------------------------------------------------
(* PolicyValidator *)

\* results.filter((r) => keep[r]).length, for keep a set of results
FilterLength(results, keep) == Cardinality({i \in 1..Len(results) : results[i] \in keep})

\* the results of a list, as a set
ResultsOf(results) == {results[i] : i \in 1..Len(results)}

\* (mutant) the summary with severity counters over all results, not the failed
calculateSummaryCountingAllSeverities(results) ==
  LET all == ResultsOf(results)
  IN [total            |-> Len(results),
      passed           |-> FilterLength(results, {r \in all : r.passed}),
      failed           |-> FilterLength(results, {r \in all : ~r.passed}),
      criticalFailures |-> FilterLength(results, {r \in all : r.severity = "critical"}),
      highFailures     |-> FilterLength(results, {r \in all : r.severity = "high"}),
      mediumFailures   |-> FilterLength(results, {r \in all : r.severity = "medium"}),
      lowFailures      |-> FilterLength(results, {r \in all : r.severity = "low"})]

calculateSummary(results) ==
  LET failed == SelectSeq(results, LAMBDA r : ~r.passed)
      all    == ResultsOf(failed)
  IN [total            |-> Len(results),
      passed           |-> Len(SelectSeq(results, LAMBDA r : r.passed)),
      failed           |-> Len(failed),
      criticalFailures |-> FilterLength(failed, {r \in all : r.severity = "critical"}),
      highFailures     |-> FilterLength(failed, {r \in all : r.severity = "high"}),
      mediumFailures   |-> FilterLength(failed, {r \in all : r.severity = "medium"}),
      lowFailures      |-> FilterLength(failed, {r \in all : r.severity = "low"})]

\* (mutant) a report listing the results of the rules last rule first
validatePolicyNewestFirst(policy, data, t) ==
  LET results == [i \in 1..Len(policy.rules) |->
                    validateRule(policy.rules[Len(policy.rules) + 1 - i], data)]
  IN [policyId   |-> policy.id,
      policyName |-> policy.name,
      timestamp  |-> t,
      results    |-> results,
      summary    |-> calculateSummary(results)]

\* the report validatePolicy returns when the clock reads t
validatePolicy(policy, data, t) ==
  LET results == [i \in 1..Len(policy.rules) |-> validateRule(policy.rules[i], data)]
  IN [policyId   |-> policy.id,
      policyName |-> policy.name,
      timestamp  |-> t,
      results    |-> results,
      summary    |-> calculateSummary(results)]

\* (mutant) the failed results, last first
getFailedRulesNewestFirst(report) ==
  LET failed == SelectSeq(report.results, LAMBDA r : ~r.passed)
  IN [i \in 1..Len(failed) |-> failed[Len(failed) + 1 - i]]

\* report.results.filter((result) => !result.passed)
getFailedRules(report) == SelectSeq(report.results, LAMBDA r : ~r.passed)

\* (mutant) a verdict that any failure makes false
isPolicyPassingAnySeverity(report) ==
  /\ report.summary.criticalFailures = 0
  /\ report.summary.highFailures = 0
  /\ report.summary.mediumFailures = 0
  /\ report.summary.lowFailures = 0

isPolicyPassing(report) ==
  report.summary.criticalFailures = 0 /\ report.summary.highFailures = 0

----------------------------------------------------------------------------
(* PolicyParser *)

\* property names of a raw policy document
kId          == <<"i", "d">>
kName        == <<"n", "a", "m", "e">>
kVersion     == <<"v", "e", "r", "s", "i", "o", "n">>
kDescription == <<"d", "e", "s", "c", "r", "i", "p", "t", "i", "o", "n">>
kRules       == <<"r", "u", "l", "e", "s">>
kCreatedAt   == <<"c", "r", "e", "a", "t", "e", "d", "A", "t">>
kUpdatedAt   == <<"u", "p", "d", "a", "t", "e", "d", "A", "t">>
kSeverity    == <<"s", "e", "v", "e", "r", "i", "t", "y">>
kCategory    == <<"c", "a", "t", "e", "g", "o", "r", "y">>
kEnabled     == <<"e", "n", "a", "b", "l", "e", "d">>
kConditions  == <<"c", "o", "n", "d", "i", "t", "i", "o", "n", "s">>
kField       == <<"f", "i", "e", "l", "d">>
kOperator    == <<"o", "p", "e", "r", "a", "t", "o", "r">>
kValue       == <<"v", "a", "l", "u", "e">>

\* the words the parser compares against, as characters
Chars(word) ==
  CASE word = "critical"    -> <<"c", "r", "i", "t", "i", "c", "a", "l">>
    [] word = "high"        -> <<"h", "i", "g", "h">>
    [] word = "medium"      -> <<"m", "e", "d", "i", "u", "m">>
    [] word = "low"         -> <<"l", "o", "w">>
    [] word = "equals"      -> <<"e", "q", "u", "a", "l", "s">>
    [] word = "notEquals"   -> <<"n", "o", "t", "E", "q", "u", "a", "l", "s">>
    [] word = "contains"    -> <<"c", "o", "n", "t", "a", "i", "n", "s">>
    [] word = "notContains" -> <<"n", "o", "t", "C", "o", "n", "t", "a", "i", "n", "s">>
    [] word = "greaterThan" -> <<"g", "r", "e", "a", "t", "e", "r", "T", "h", "a", "n">>
    [] word = "lessThan"    -> <<"l", "e", "s", "s", "T", "h", "a", "n">>
    [] word = "matches"     -> <<"m", "a", "t", "c", "h", "e", "s">>
    [] word = "general"     -> <<"g", "e", "n", "e", "r", "a", "l">>
    [] word = "1.0.0"       -> <<"1", ".", "0", ".", "0">>
    [] word = "true"        -> <<"t", "r", "u", "e">>
    [] word = "false"       -> <<"f", "a", "l", "s", "e">>
    [] word = "undefined"   -> <<"u", "n", "d", "e", "f", "i", "n", "e", "d">>
    [] word = "null"        -> <<"n", "u", "l", "l">>
    [] OTHER                -> <<word>>

validSeverities == <<"critical", "high", "medium", "low">>
validOperators  == <<"equals", "notEquals", "contains", "notContains",
                     "greaterThan", "lessThan", "matches">>

\* the decimal digits of a natural number
RECURSIVE Digits(_)
Digits(k) ==
  LET d == <<"0", "1", "2", "3", "4", "5", "6", "7", "8", "9">>[(k % 10) + 1]
  IN IF k < 10 THEN <<d>> ELSE Append(Digits(k \div 10), d)

\* String(v)
StringOf(v) ==
  CASE v.kind = "string"    -> v.s
    [] v.kind = "number"    -> IF v.n < 0 THEN <<"-">> \o Digits(0 - v.n) ELSE Digits(v.n)
    [] v.kind = "boolean"   -> IF v.b THEN Chars("true") ELSE Chars("false")
    [] v.kind = "undefined" -> Chars("undefined")
    [] v.kind = "null"      -> Chars("null")
    [] v.kind = "array"     -> <<>>
    [] v.kind = "date"      -> <<"t">> \o Digits(v.n)
    [] v.kind = "regexp"    -> <<"/">> \o v.s \o <<"/">>
    [] OTHER                -> <<"[object Object]">>

\* v ?? d
Coalesce(v, d) == IF v.kind \in {"undefined", "null"} THEN d ELSE v

\* the reading of a date string: "t" followed by the digits of an instant
\* stands for the ISO text of that instant; any other text is no date
DateStringTime(s) ==
  IF Len(s) >= 2 /\ s[1] = "t" /\ \E k \in 0..99 : Digits(k) = Tail(s)
    THEN CHOOSE k \in 0..99 : Digits(k) = Tail(s)
    ELSE -1

\* parseDate: the instant of the date, or -1 for null
parseDate(input) ==
  CASE input.kind = "date"   -> input.n
    [] input.kind = "string" -> DateStringTime(input.s)
    [] input.kind = "number" -> input.n
    [] OTHER                 -> -1

\* (mutant) parseSeverity reading an unknown word as low
parseSeverityOfAnyString(input) ==
  IF TypeOf(input) = "string"
    THEN IF \E i \in 1..Len(validSeverities) : Chars(validSeverities[i]) = input.s
           THEN validSeverities[CHOOSE i \in 1..Len(validSeverities) :
                                  Chars(validSeverities[i]) = input.s]
           ELSE "low"
    ELSE "medium"

parseSeverity(input) ==
  IF TypeOf(input) = "string"
     /\ \E i \in 1..Len(validSeverities) : Chars(validSeverities[i]) = input.s
    THEN validSeverities[CHOOSE i \in 1..Len(validSeverities) :
                           Chars(validSeverities[i]) = input.s]
    ELSE "medium"

parseCondition(input) ==
  LET op == Get(input, kOperator)
      operator ==
        IF op.kind = "string"
           /\ \E i \in 1..Len(validOperators) : Chars(validOperators[i]) = op.s
          THEN validOperators[CHOOSE i \in 1..Len(validOperators) :
                                Chars(validOperators[i]) = op.s]
          ELSE "equals"
  IN [field    |-> StringOf(Coalesce(Get(input, kField), Str(<<>>))),
      operator |-> operator,
      value    |-> Get(input, kValue)]

\* typeof item === 'object' && item !== null
IsNonNullObject(item) == TypeOf(item) = "object" /\ item.kind # "null"

\* (mutant) parseConditions parsing every element of the list
parseConditionsOfEveryElement(input) ==
  IF input.kind # "array" THEN <<>>
  ELSE [i \in 1..Len(input.a) |-> parseCondition(input.a[i])]

parseConditions(input) ==
  IF input.kind # "array" THEN <<>>
  ELSE LET kept == SelectSeq(input.a, IsNonNullObject)
       IN [i \in 1..Len(kept) |-> parseCondition(kept[i])]

\* parseRule throws on this rule
ruleThrows(input) ==
  \/ ~IsNonNullObject(input)
  \/ TypeOf(Get(input, kId)) # "string"
  \/ TypeOf(Get(input, kName)) # "string"

parseRule(input) ==
  [id          |-> Get(input, kId).s,
   name        |-> Get(input, kName).s,
   description |-> StringOf(Coalesce(Get(input, kDescription), Str(<<>>))),
   severity    |-> parseSeverity(Get(input, kSeverity)),
   category    |-> StringOf(Coalesce(Get(input, kCategory), Str(Chars("general")))),
   enabled     |-> Get(input, kEnabled) # Bool(FALSE),
   conditions  |-> parseConditions(Get(input, kConditions))]

parseRules(input) ==
  IF input.kind # "array" THEN <<>>
  ELSE [i \in 1..Len(input.a) |-> parseRule(input.a[i])]

isValidPolicyInput(input) ==
  /\ IsNonNullObject(input)
  /\ TypeOf(Get(input, kId)) = "string"
  /\ TypeOf(Get(input, kName)) = "string"
  /\ Get(input, kRules).kind = "array"

\* parsePolicy throws on this input (the policy format, or one of its rules)
parseThrows(input) ==
  \/ ~isValidPolicyInput(input)
  \/ \E i \in 1..Len(Get(input, kRules).a) : ruleThrows(Get(input, kRules).a[i])

\* value ?? new Date(), for a parsed date
OrNow(time, t) == IF time = -1 THEN t ELSE time

\* the policy parsePolicy returns when the clock reads t
parsePolicy(input, t) ==
  [id          |-> StringOf(Get(input, kId)),
   name        |-> StringOf(Get(input, kName)),
   version     |-> StringOf(Coalesce(Get(input, kVersion), Str(Chars("1.0.0")))),
   description |-> StringOf(Coalesce(Get(input, kDescription), Str(<<>>))),
   rules       |-> parseRules(Get(input, kRules)),
   createdAt   |-> OrNow(parseDate(Get(input, kCreatedAt)), t),
   updatedAt   |-> OrNow(parseDate(Get(input, kUpdatedAt)), t)]

----------------------------------------------------------------------------
(* AuditLogger *)

\* the suffixes Math.random() contributes to the ids of the entries the
\* service writes
RandomSuffixes == {"k3x9q2a"}

\* the suffixes Math.random() contributes when the logger is run alone
LoggerRandomSuffixes == {"k3x9q2a", "p0w4z7m"}

\* the constructor's default capacity
DefaultMaxLogSize == 10000

\* seq.slice(start)
Slice(seq, start) ==
  LET len  == Len(seq)
      from == IF start < 0
                THEN (IF len + start < 0 THEN 0 ELSE len + start)
                ELSE (IF start > len THEN len ELSE start)
  IN SubSeq(seq, from + 1, len)

\* (mutant) trimming that keeps the oldest entries
trimLogsKeepingOldest(entries, max) ==
  IF Len(entries) > max THEN SubSeq(entries, 1, max) ELSE entries

trimLogs(entries, max) ==
  IF Len(entries) > max THEN Slice(entries, 0 - max) ELSE entries

\* generateId when the clock reads t and Math.random() yields r
generateId(t, r) == <<"audit", t, r>>

\* (mutant) the entry with the resource id and the user id swapped
EntrySwappingIds(id, t, action, resourceType, resourceId, userId, details) ==
  [id           |-> id,
   timestamp    |-> t,
   action       |-> action,
   resourceType |-> resourceType,
   resourceId   |-> userId,
   userId       |-> resourceId,
   details      |-> details]

\* the entry AuditLogger.log builds
Entry(id, t, action, resourceType, resourceId, userId, details) ==
  [id           |-> id,
   timestamp    |-> t,
   action       |-> action,
   resourceType |-> resourceType,
   resourceId   |-> resourceId,
   userId       |-> userId,
   details      |-> details]

\* AuditLogger.log: push the entry, then trim
Log(entry) ==
  /\ logs' = trimLogs(Append(logs, entry), maxLogSize)
  /\ inserted' = Append(inserted, entry)

----------------------------------------------------------------------------
(* ComplianceService: the policies Map, in insertion order *)

Has(map, key) == \E i \in 1..Len(map) : map[i].key = key

IndexOf(map, key) == CHOOSE i \in 1..Len(map) : map[i].key = key

MapGet(map, key) == map[IndexOf(map, key)].value

\* (mutant) Map.set that keeps the value an existing key already has
MapSetKeepingTheFirstValue(map, key, value) ==
  IF Has(map, key)
    THEN map
    ELSE Append(map, [key |-> key, value |-> value])

\* (mutant) Map.set that moves an existing key behind the others
MapSetMovingToTheEnd(map, key, value) ==
  IF Has(map, key)
    THEN Append(SubSeq(map, 1, IndexOf(map, key) - 1)
                  \o SubSeq(map, IndexOf(map, key) + 1, Len(map)),
                [key |-> key, value |-> value])
    ELSE Append(map, [key |-> key, value |-> value])

\* Map.set: an existing key keeps its place, a new key goes last
MapSet(map, key, value) ==
  IF Has(map, key)
    THEN [map EXCEPT ![IndexOf(map, key)] = [key |-> key, value |-> value]]
    ELSE Append(map, [key |-> key, value |-> value])

\* Map.delete
MapDelete(map, key) ==
  IF Has(map, key)
    THEN SubSeq(map, 1, IndexOf(map, key) - 1) \o SubSeq(map, IndexOf(map, key) + 1, Len(map))
    ELSE map

Keys(map) == {map[i].key : i \in 1..Len(map)}

\* the details of a create or update entry
PolicyDetails(policy) ==
  {<<"policyName", Str(policy.name)>>, <<"ruleCount", Num(Len(policy.rules))>>}

\* (mutant) details whose `passed` is true only for a report without failures
ValidateDetailsPassedWithoutFailures(report) ==
  {<<"passed", Bool(report.summary.failed = 0)>>,
   <<"totalRules", Num(report.summary.total)>>,
   <<"failedRules", Num(report.summary.failed)>>}

\* the details of a validate entry
ValidateDetails(report) ==
  {<<"passed", Bool(isPolicyPassing(report))>>,
   <<"totalRules", Num(report.summary.total)>>,
   <<"failedRules", Num(report.summary.failed)>>}

\* what `last` records of a call: the operation, the policy id it was about,
\* the user it logged for, how it ended and, for a successful update, the id
\* the input document carried
Call(op, policyId, userId, outcome, inputId) ==
  [op |-> op, policyId |-> policyId, userId |-> userId, outcome |-> outcome,
   inputId |-> inputId]

NoId == <<>>

NoValue == Undefined

\* what `returned` records of a validating call: the record it was handed and
\* the value it handed back
Returned(data, value) == [data |-> data, value |-> value]

\* no validating call has returned: the last call was of another operation,
\* or it threw
NoReturn == Returned(NoValue, NoValue)

\* whether one more AuditLogger.log call fits the run
CanLog == Len(inserted) < MaxLogCalls

----------------------------------------------------------------------------
(* The inputs of the model *)

p1 == <<"p", "1">>
p2 == <<"p", "2">>
PolicyIds == {p1, p2}

u1 == <<"u", "1">>
u2 == <<"u", "2">>
UserIds == {u1, u2}

sStatus   == <<"s", "t", "a", "t", "u", "s">>
sScore    == <<"s", "c", "o", "r", "e">>
sUser     == <<"u", "s", "e", "r">>
sRole     == <<"r", "o", "l", "e">>
sUserRole == sUser \o <<".">> \o sRole
sActive   == <<"a", "c", "t", "i", "v", "e">>
sInactive == <<"i", "n", "a", "c", "t", "i", "v", "e">>
sAdmin    == <<"a", "d", "m", "i", "n">>

\* the records handed to validate
DataActive   == Obj({<<sStatus, Str(sActive)>>, <<sScore, Num(2)>>,
                     <<sUser, Obj({<<sRole, Str(sAdmin)>>})>>})
DataInactive == Obj({<<sStatus, Str(sInactive)>>, <<sScore, Num(1)>>, <<sUser, Obj({})>>})
DataEmpty    == Obj({})
Records      == {DataActive, DataInactive, DataEmpty}

\* typed conditions and rules, for the validator
Cond(field, operator, value) == [field |-> field, operator |-> operator, value |-> value]

ConditionLists ==
  { <<>>,
    <<Cond(sStatus, "equals", Str(sActive))>>,
    <<Cond(sScore, "greaterThan", Num(0)), Cond(sUserRole, "contains", Str(<<"a", "d">>))>> }

ValidatorRules ==
  { [id |-> <<"r", sev>>, name |-> <<"n", sev>>, description |-> <<"d">>,
     severity |-> sev, category |-> Chars("general"), enabled |-> en, conditions |-> cs]
      : sev \in {"critical", "high", "medium", "low"}, en \in BOOLEAN, cs \in ConditionLists }

ValidatorPolicies ==
  { [id |-> p1, name |-> <<"A">>, version |-> Chars("1.0.0"), description |-> <<>>,
     rules |-> rs, createdAt |-> 0, updatedAt |-> 0]
      : rs \in UNION {[1..k -> ValidatorRules] : k \in 0..MaxRules} }

\* reports written by hand, as the tests of isPolicyPassing write them
HandMadeReports ==
  { [policyId |-> p1, policyName |-> <<"A">>, timestamp |-> 0, results |-> <<>>,
     summary |-> [total |-> ok + c + h + m + l, passed |-> ok, failed |-> c + h + m + l,
                  criticalFailures |-> c, highFailures |-> h,
                  mediumFailures |-> m, lowFailures |-> l]]
      : ok \in 0..1, c \in 0..MaxRules, h \in 0..MaxRules, m \in 0..MaxRules, l \in 0..MaxRules }

\* raw documents, for the parser
CondDoc(field, operator, value) ==
  Obj({<<kField, Str(field)>>, <<kOperator, Str(Chars(operator))>>, <<kValue, value>>})

RuleDoc(id, name, severity, enabled, conditions) ==
  Obj({<<kId, Str(id)>>, <<kName, Str(name)>>, <<kSeverity, severity>>,
       <<kEnabled, enabled>>, <<kConditions, Arr(conditions)>>})

PolicyDoc(id, name, rules, createdAt, updatedAt) ==
  Obj({<<kId, Str(id)>>, <<kName, Str(name)>>, <<kRules, Arr(rules)>>,
       <<kCreatedAt, createdAt>>, <<kUpdatedAt, updatedAt>>})

\* a policy with one high rule and no timestamps
DocA(id) ==
  PolicyDoc(id, <<"A">>,
            <<RuleDoc(<<"r", "1">>, <<"S">>, Str(Chars("high")), Bool(TRUE),
                      <<CondDoc(sStatus, "equals", Str(sActive))>>)>>,
            Undefined, Undefined)

\* a policy with a medium rule and a disabled critical rule, created at 0
\* (an ISO text) and with updatedAt at the end of time (an epoch number)
DocB(id) ==
  PolicyDoc(id, <<"B">>,
            <<RuleDoc(<<"r", "2">>, <<"C">>, Undefined, Undefined,
                      <<CondDoc(sScore, "greaterThan", Num(1))>>),
              RuleDoc(<<"r", "3">>, <<"D">>, Str(Chars("critical")), Bool(FALSE),
                      <<CondDoc(sStatus, "equals", Str(sActive))>>)>>,
            Str(<<"t", "0">>), Num(MaxTime))

ValidDocs == {DocA(id) : id \in PolicyIds} \cup {DocB(id) : id \in PolicyIds}

\* documents the parser rejects: no name, a rule that is no object
InvalidDocs ==
  { Obj({<<kId, Str(p1)>>, <<kRules, Arr(<<>>)>>}),
    Obj({<<kId, Str(p1)>>, <<kName, Str(<<"A">>)>>, <<kRules, Arr(<<Num(1)>>)>>}) }

Docs == ValidDocs \cup InvalidDocs

----------------------------------------------------------------------------
(* The service: one action per operation *)

\* time passes
Tick ==
  /\ now < MaxTime
  /\ now' = now + 1
  /\ UNCHANGED <<policies, logs, maxLogSize, inserted, last, returned>>
  /\ UNCHANGED valVars

\* (mutant) registerPolicy without the duplicate check
registerPolicyOverwriting(policyInput, userId, r) ==
  IF parseThrows(policyInput)
    THEN /\ last' = Call("registerPolicy", NoId, NoId, "InvalidInput", NoId)
         /\ UNCHANGED <<policies, logs, inserted>>
    ELSE LET policy == parsePolicy(policyInput, now)
         IN /\ policies' = MapSet(policies, policy.id, policy)
            /\ Log(Entry(generateId(now, r), now, "create", "policy", policy.id, userId,
                         PolicyDetails(policy)))
            /\ last' = Call("registerPolicy", policy.id, userId, "ok", NoId)

registerPolicy(policyInput, userId, r) ==
  IF parseThrows(policyInput)
    THEN /\ last' = Call("registerPolicy", NoId, NoId, "InvalidInput", NoId)
         /\ UNCHANGED <<policies, logs, inserted>>
    ELSE LET policy == parsePolicy(policyInput, now)
         IN IF Has(policies, policy.id)
              THEN /\ last' = Call("registerPolicy", policy.id, NoId, "DuplicateId", NoId)
                   /\ UNCHANGED <<policies, logs, inserted>>
              ELSE /\ policies' = MapSet(policies, policy.id, policy)
                   /\ Log(Entry(generateId(now, r), now, "create", "policy", policy.id, userId,
                                PolicyDetails(policy)))
                   /\ last' = Call("registerPolicy", policy.id, userId, "ok", NoId)

RegisterPolicy ==
  /\ CanLog
  /\ \E policyInput \in Docs, userId \in UserIds, r \in RandomSuffixes :
       registerPolicy(policyInput, userId, r)
  /\ returned' = NoReturn
  /\ UNCHANGED <<now, maxLogSize>>
  /\ UNCHANGED valVars

\* (mutant) the record of an update that keeps the id of the input
updatedPolicyKeepingInputId(policyId, policyInput, t) ==
  [parsePolicy(policyInput, t) EXCEPT !.updatedAt = t]

\* the record updatePolicy stores when the clock reads t

updatedPolicy(policyId, policyInput, t) ==
  [parsePolicy(policyInput, t) EXCEPT !.id = policyId, !.updatedAt = t]

\* (mutant) updatePolicy without the existence check
updatePolicyUpserting(policyId, policyInput, userId, r) ==
  IF parseThrows(policyInput)
    THEN /\ last' = Call("updatePolicy", policyId, NoId, "InvalidInput", NoId)
         /\ UNCHANGED <<policies, logs, inserted>>
    ELSE LET policy == updatedPolicy(policyId, policyInput, now)
         IN /\ policies' = MapSet(policies, policyId, policy)
            /\ Log(Entry(generateId(now, r), now, "update", "policy", policyId, userId,
                         PolicyDetails(policy)))
            /\ last' = Call("updatePolicy", policyId, userId, "ok",
                            StringOf(Get(policyInput, kId)))

\* (mutant) updatePolicy parsing the input before the existence check
updatePolicyParsingFirst(policyId, policyInput, userId, r) ==
  IF parseThrows(policyInput)
    THEN /\ last' = Call("updatePolicy", policyId, NoId, "InvalidInput", NoId)
         /\ UNCHANGED <<policies, logs, inserted>>
    ELSE IF ~Has(policies, policyId)
      THEN /\ last' = Call("updatePolicy", policyId, NoId, "NotFound", NoId)
           /\ UNCHANGED <<policies, logs, inserted>>
      ELSE LET policy == updatedPolicy(policyId, policyInput, now)
           IN /\ policies' = MapSet(policies, policyId, policy)
              /\ Log(Entry(generateId(now, r), now, "update", "policy", policyId, userId,
                           PolicyDetails(policy)))
              /\ last' = Call("updatePolicy", policyId, userId, "ok",
                             StringOf(Get(policyInput, kId)))

\* (mutant) updatePolicy removing the stored policy when the input is rejected
updatePolicyDroppingOnInvalidInput(policyId, policyInput, userId, r) ==
  IF ~Has(policies, policyId)
    THEN /\ last' = Call("updatePolicy", policyId, NoId, "NotFound", NoId)
         /\ UNCHANGED <<policies, logs, inserted>>
    ELSE IF parseThrows(policyInput)
      THEN /\ last' = Call("updatePolicy", policyId, NoId, "InvalidInput", NoId)
           /\ policies' = MapDelete(policies, policyId)
           /\ UNCHANGED <<logs, inserted>>
      ELSE LET policy == updatedPolicy(policyId, policyInput, now)
           IN /\ policies' = MapSet(policies, policyId, policy)
              /\ Log(Entry(generateId(now, r), now, "update", "policy", policyId, userId,
                           PolicyDetails(policy)))
              /\ last' = Call("updatePolicy", policyId, userId, "ok",
                             StringOf(Get(policyInput, kId)))

updatePolicy(policyId, policyInput, userId, r) ==
  IF ~Has(policies, policyId)
    THEN /\ last' = Call("updatePolicy", policyId, NoId, "NotFound", NoId)
         /\ UNCHANGED <<policies, logs, inserted>>
    ELSE IF parseThrows(policyInput)
      THEN /\ last' = Call("updatePolicy", policyId, NoId, "InvalidInput", NoId)
           /\ UNCHANGED <<policies, logs, inserted>>
      ELSE LET policy == updatedPolicy(policyId, policyInput, now)
           IN /\ policies' = MapSet(policies, policyId, policy)
              /\ Log(Entry(generateId(now, r), now, "update", "policy", policyId, userId,
                           PolicyDetails(policy)))
              /\ last' = Call("updatePolicy", policyId, userId, "ok",
                             StringOf(Get(policyInput, kId)))

UpdatePolicy ==
  /\ CanLog
  /\ \E policyId \in PolicyIds, policyInput \in Docs, userId \in UserIds, r \in RandomSuffixes :
       updatePolicy(policyId, policyInput, userId, r)
  /\ returned' = NoReturn
  /\ UNCHANGED <<now, maxLogSize>>
  /\ UNCHANGED valVars

\* (mutant) deletePolicy writing its audit entry before the existence check
deletePolicyLoggingFirst(policyId, userId, r) ==
  /\ Log(Entry(generateId(now, r), now, "delete", "policy", policyId, userId, {}))
  /\ policies' = MapDelete(policies, policyId)
  /\ last' = Call("deletePolicy", policyId, userId,
                  IF Has(policies, policyId) THEN "true" ELSE "false", NoId)

\* (mutant) deletePolicy leaving the policy in the map
deletePolicyKeepingThePolicy(policyId, userId, r) ==
  IF ~Has(policies, policyId)
    THEN /\ last' = Call("deletePolicy", policyId, NoId, "false", NoId)
         /\ UNCHANGED <<policies, logs, inserted>>
    ELSE /\ UNCHANGED policies
         /\ Log(Entry(generateId(now, r), now, "delete", "policy", policyId, userId, {}))
         /\ last' = Call("deletePolicy", policyId, userId, "true", NoId)

deletePolicy(policyId, userId, r) ==
  IF ~Has(policies, policyId)
    THEN /\ last' = Call("deletePolicy", policyId, NoId, "false", NoId)
         /\ UNCHANGED <<policies, logs, inserted>>
    ELSE /\ policies' = MapDelete(policies, policyId)
         /\ Log(Entry(generateId(now, r), now, "delete", "policy", policyId, userId, {}))
         /\ last' = Call("deletePolicy", policyId, userId, "true", NoId)

DeletePolicy ==
  /\ CanLog
  /\ \E policyId \in PolicyIds, userId \in UserIds, r \in RandomSuffixes :
       deletePolicy(policyId, userId, r)
  /\ returned' = NoReturn
  /\ UNCHANGED <<now, maxLogSize>>
  /\ UNCHANGED valVars

validate(policyId, data, userId, r) ==
  IF ~Has(policies, policyId)
    THEN /\ last' = Call("validate", policyId, NoId, "NotFound", NoId)
         /\ returned' = NoReturn
         /\ UNCHANGED <<policies, logs, inserted>>
    ELSE LET report == validatePolicy(MapGet(policies, policyId), data, now)
         IN /\ Log(Entry(generateId(now, r), now, "validate", "policy", policyId, userId,
                         ValidateDetails(report)))
            /\ last' = Call("validate", policyId, userId, "ok", NoId)
            /\ returned' = Returned(data, report)
            /\ UNCHANGED policies

Validate ==
  /\ CanLog
  /\ \E policyId \in PolicyIds, data \in {DataActive, DataInactive}, userId \in UserIds, r \in RandomSuffixes :
       validate(policyId, data, userId, r)
  /\ UNCHANGED <<now, maxLogSize>>
  /\ UNCHANGED valVars

\* the validator variables while the service runs
ValidatorIdle ==
  /\ vPolicy = NoValue
  /\ vData = NoValue
  /\ vReport = NoValue
  /\ vVerdict = FALSE
  /\ vPc = "idle"
  /\ vCondition = NoValue
  /\ vResult = NoValue

\* the capacities of the loggers handed to the service: one that evicts early
\* and the constructor's default
ServiceCapacities == {1, DefaultMaxLogSize}

\* new AuditLogger(maxLogSize); new ComplianceService(auditLogger)
Init ==
  /\ now = 0
  /\ policies = <<>>
  /\ logs = <<>>
  /\ maxLogSize \in ServiceCapacities
  /\ inserted = <<>>
  /\ last = Call("new", NoId, NoId, "ok", NoId)
  /\ returned = NoReturn
  /\ ValidatorIdle

Next ==
  \/ Tick
  \/ RegisterPolicy
  \/ UpdatePolicy
  \/ DeletePolicy
  \/ Validate

Spec == Init /\ [][Next]_vars

----------------------------------------------------------------------------
(* The policy validator alone: validatePolicy and isPolicyPassing applied  *)
(* to inputs drawn by the initial state                                    *)

ServiceIdle ==
  /\ now = 0
  /\ policies = <<>>
  /\ logs = <<>>
  /\ maxLogSize = 0
  /\ inserted = <<>>
  /\ last = Call("new", NoId, NoId, "ok", NoId)
  /\ returned = NoReturn

ValidatorInit ==
  /\ ServiceIdle
  /\ vVerdict = FALSE
  /\ vCondition = NoValue
  /\ vResult = NoValue
  /\ \/ /\ vPc = "start"
        /\ vPolicy \in ValidatorPolicies
        /\ vData \in Records
        /\ vReport = NoValue
     \/ /\ vPc = "reported"
        /\ vPolicy = NoValue
        /\ vData = NoValue
        /\ vReport \in HandMadeReports

ValidatePolicyCall ==
  /\ vPc = "start"
  /\ vReport' = validatePolicy(vPolicy, vData, now)
  /\ vPc' = "reported"
  /\ UNCHANGED <<vPolicy, vData, vVerdict, vCondition, vResult>>
  /\ UNCHANGED svcVars

IsPolicyPassingCall ==
  /\ vPc = "reported"
  /\ vVerdict' = isPolicyPassing(vReport)
  /\ vPc' = "judged"
  /\ UNCHANGED <<vPolicy, vData, vReport, vCondition, vResult>>
  /\ UNCHANGED svcVars

GetFailedRulesCall ==
  /\ vPc = "reported"
  /\ vResult' = Arr(getFailedRules(vReport))
  /\ vPc' = "filtered"
  /\ UNCHANGED <<vPolicy, vData, vReport, vVerdict, vCondition>>
  /\ UNCHANGED svcVars

ValidatorNext ==
  \/ ValidatePolicyCall
  \/ IsPolicyPassingCall
  \/ GetFailedRulesCall

ValidatorSpec == ValidatorInit /\ [][ValidatorNext]_vars

----------------------------------------------------------------------------
(* The audit logger alone: log called directly, for every capacity         *)

\* the arguments of the direct log calls: action, resourceType, resourceId,
\* userId, details
LogArgs ==
  { <<"create",   "policy", p1, u1, {<<"policyName", Str(<<"A">>)>>}>>,
    <<"update",   "policy", p1, u2, {}>>,
    <<"delete",   "policy", p2, u1, {}>>,
    <<"validate", "policy", p2, u2, {<<"passed", Bool(TRUE)>>}>>,
    <<"validate", "report", p1, u1, {<<"test", Bool(TRUE)>>}>>,
    <<"create",   "rule",   p2, u2, {}>> }

\* new AuditLogger(maxLogSize)
LoggerInit ==
  /\ now = 0
  /\ policies = <<>>
  /\ logs = <<>>
  /\ maxLogSize \in 0..MaxCapacity
  /\ inserted = <<>>
  /\ last = Call("new", NoId, NoId, "ok", NoId)
  /\ returned = NoReturn
  /\ ValidatorIdle

LoggerTick ==
  /\ now < MaxTime
  /\ now' = now + 1
  /\ UNCHANGED <<policies, logs, maxLogSize, inserted, last, returned>>
  /\ UNCHANGED valVars

LogCall ==
  /\ Len(inserted) < MaxLoggerCalls
  /\ \E args \in LogArgs, r \in LoggerRandomSuffixes :
       Log(Entry(generateId(now, r), now, args[1], args[2], args[3], args[4], args[5]))
  /\ UNCHANGED <<now, policies, maxLogSize, last, returned>>
  /\ UNCHANGED valVars

LoggerNext ==
  \/ LoggerTick
  \/ LogCall

LoggerSpec == LoggerInit /\ [][LoggerNext]_vars

----------------------------------------------------------------------------
(* Properties of the policy validator (under ValidatorSpec) *)

\* the report under study came out of validatePolicy
FromValidatePolicy == vPc \in {"reported", "judged"} /\ vData.kind = "object"

\* C1: isPolicyPassing(report) is true exactly when the report counts no
\* critical and no high failure, whatever its medium and low counters say.
C1_PassingIffNoCriticalNoHigh ==
  vPc = "judged" =>
    /\ vVerdict = (vReport.summary.criticalFailures = 0 /\ vReport.summary.highFailures = 0)
    /\ \A m, l \in 0..MaxRules :
         isPolicyPassing([vReport EXCEPT !.summary.mediumFailures = m,
                                         !.summary.lowFailures = l]) = vVerdict

\* a report with medium and low failures only was judged passing
C1_Witness ==
  /\ vPc = "judged"
  /\ vVerdict = TRUE
  /\ vReport.summary.mediumFailures > 0
  /\ vReport.summary.lowFailures > 0

\* the number of failed results of one severity
FailedOfSeverity(results, sev) ==
  Cardinality({i \in 1..Len(results) : ~results[i].passed /\ results[i].severity = sev})

\* C2: a report of validatePolicy has total = number of rules,
\* failed = total - passed, the four severity counters sum to failed, and each
\* counter counts only the failed rules of its severity.
C2_SummaryIsConsistent ==
  FromValidatePolicy =>
    LET s == vReport.summary
    IN /\ s.total = Len(vPolicy.rules)
       /\ s.failed = s.total - s.passed
       /\ s.criticalFailures + s.highFailures + s.mediumFailures + s.lowFailures = s.failed
       /\ s.criticalFailures = FailedOfSeverity(vReport.results, "critical")
       /\ s.highFailures = FailedOfSeverity(vReport.results, "high")
       /\ s.mediumFailures = FailedOfSeverity(vReport.results, "medium")
       /\ s.lowFailures = FailedOfSeverity(vReport.results, "low")

\* a report with a passed rule and a failed rule
C2_Witness ==
  /\ FromValidatePolicy
  /\ vReport.summary.passed >= 1
  /\ vReport.summary.failed >= 1

----------------------------------------------------------------------------
(* Properties of the audit logger (under LoggerSpec) *)

\* the last k entries ever logged
MostRecent(k) == SubSeq(inserted, Len(inserted) - k + 1, Len(inserted))

\* C3: for every capacity >= 0 the stored entries never outnumber the
\* capacity, and once more than `capacity` entries were logged the stored
\* entries are the most recent `capacity` insertions, in order.
C3_LogBoundedByCapacity ==
  /\ Len(logs) <= maxLogSize
  /\ Len(inserted) > maxLogSize => logs = MostRecent(maxLogSize)

\* the same for the capacities of 1 and more (not a claim: the range where
\* the code keeps the bound)
LogBoundedForPositiveCapacity == maxLogSize >= 1 => C3_LogBoundedByCapacity

----------------------------------------------------------------------------
(* Properties of the compliance service (under Spec) *)

\* this step is a call of the service (the clock stands still during a call)
IsCall(op) == now' = now /\ last'.op = op

\* the audit action of a service operation
ActionOf(op) ==
  CASE op = "registerPolicy" -> "create"
    [] op = "updatePolicy"   -> "update"
    [] op = "deletePolicy"   -> "delete"
    [] OTHER                 -> "validate"

\* this step leaves the policy map and the audit log as they were
MapAndLogUnchanged == policies' = policies /\ logs' = logs /\ inserted' = inserted

\* this step pushed exactly one entry, with this action, for this policy and user
PushedOne(action, policyId, userId) ==
  /\ Len(inserted') = Len(inserted) + 1
  /\ SubSeq(inserted', 1, Len(inserted)) = inserted
  /\ Len(logs') >= 1
  /\ logs'[Len(logs')] = inserted'[Len(inserted')]
  /\ LET e == inserted'[Len(inserted')]
     IN /\ e.action = action
        /\ e.resourceType = "policy"
        /\ e.resourceId = policyId
        /\ e.userId = userId

\* C4: every successful registerPolicy, updatePolicy, deletePolicy and
\* validate call appends exactly one audit entry: create, update, delete or
\* validate respectively, of resource type policy, for the policy id and the
\* user id of the call.
C4_OneEntryPerSuccessfulCall ==
  [][\A op \in {"registerPolicy", "updatePolicy", "deletePolicy", "validate"} :
       (IsCall(op) /\ last'.outcome \in {"ok", "true"})
         => PushedOne(ActionOf(op), last'.policyId, last'.userId)]_vars

\* all four kinds of entry were written, for both users
C4_Witness ==
  /\ Len(inserted) = 2
  /\ inserted[1].action = "create" /\ inserted[1].userId = u1
  /\ inserted[2].action = "validate" /\ inserted[2].userId = u2
  /\ inserted[2].resourceId = p2

\* C5: registerPolicy with a document whose id is already registered fails
\* with DuplicateId and leaves the stored policy, the rest of the map and the
\* audit log unchanged.
C5_DuplicateRegisterChangesNothing ==
  [][(IsCall("registerPolicy") /\ Has(policies, last'.policyId))
       => (last'.outcome = "DuplicateId" /\ MapAndLogUnchanged)]_vars

\* a registration was refused as a duplicate
C5_Witness ==
  /\ last.op = "registerPolicy"
  /\ last.outcome = "DuplicateId"
  /\ Has(policies, last.policyId)

\* C6: updatePolicy and validate with an id that is not registered fail with
\* NotFound and leave the policy map and the audit log unchanged.
C6_UnknownIdIsNotFound ==
  [][\A op \in {"updatePolicy", "validate"} :
       (IsCall(op) /\ ~Has(policies, last'.policyId))
         => (last'.outcome = "NotFound" /\ MapAndLogUnchanged)]_vars

\* an update of an unregistered id failed while another policy was registered
C6_Witness ==
  /\ last.op = "updatePolicy"
  /\ last.outcome = "NotFound"
  /\ ~Has(policies, last.policyId)
  /\ Len(policies) = 1

\* C7: deletePolicy of an unregistered id returns false and changes nothing;
\* of a registered id it removes the policy (and no other), appends one delete
\* entry and returns true.
C7_DeleteRemovesOrChangesNothing ==
  [][IsCall("deletePolicy") =>
       IF Has(policies, last'.policyId)
         THEN /\ last'.outcome = "true"
              /\ ~Has(policies', last'.policyId)
              /\ policies' = SelectSeq(policies, LAMBDA e : e.key # last'.policyId)
              /\ PushedOne("delete", last'.policyId, last'.userId)
         ELSE /\ last'.outcome = "false"
              /\ MapAndLogUnchanged]_vars

\* a registered policy was deleted: the map is empty again and the log ends
\* with the delete entry
C7_Witness ==
  /\ last.op = "deletePolicy"
  /\ last.outcome = "true"
  /\ policies = <<>>
  /\ Len(inserted) = 2
  /\ inserted[1].action = "create"
  /\ inserted[2].action = "delete"

\* every stored policy carries the key it is stored under
KeyedById(map) == \A i \in 1..Len(map) : map[i].value.id = map[i].key

\* C8: every stored policy has the id of its key; updatePolicy(id, input)
\* stores a record with id `id` whatever id the input carries, and neither
\* creates nor changes an entry under another key.
C8_StoredIdIsKey ==
  [][/\ KeyedById(policies')
     /\ (IsCall("updatePolicy") /\ last'.outcome = "ok") =>
          /\ MapGet(policies', last'.policyId).id = last'.policyId
          /\ [i \in 1..Len(policies') |-> policies'[i].key]
               = [i \in 1..Len(policies) |-> policies[i].key]
          /\ \A i \in 1..Len(policies) :
               policies[i].key # last'.policyId => policies'[i] = policies[i]]_vars

\* p1 was updated with a document carrying the id p2, which is not registered
C8_Witness ==
  /\ last.op = "updatePolicy"
  /\ last.outcome = "ok"
  /\ last.policyId = p1
  /\ last.inputId = p2
  /\ Keys(policies) = {p1}

\* this step is a successful update
UpdateSucceeded == IsCall("updatePolicy") /\ last'.outcome = "ok"

\* C9: createdAt is set once at registration and updatePolicy never
\* modifies it.
C9_UpdateKeepsCreatedAt ==
  [][UpdateSucceeded =>
       MapGet(policies', last'.policyId).createdAt
         = MapGet(policies, last'.policyId).createdAt]_vars

\* C10: a successful updatePolicy sets updatedAt to the current time, and
\* the new updatedAt is at least the stored policy's previous updatedAt.
C10_UpdatedAtAdvances ==
  [][UpdateSucceeded =>
       /\ MapGet(policies', last'.policyId).updatedAt = now
       /\ MapGet(policies', last'.policyId).updatedAt
            >= MapGet(policies, last'.policyId).updatedAt]_vars

\* the half of C10 the code keeps (not a claim): updatedAt becomes the
\* current time
UpdatedAtIsNow ==
  [][UpdateSucceeded => MapGet(policies', last'.policyId).updatedAt = now]_vars

----------------------------------------------------------------------------
(* More properties of the audit logger (under LoggerSpec) *)

\* C11: all entries one AuditLogger ever produced have pairwise distinct
\* ids, entries logged within one clock tick and evicted entries included.
C11_IdsAreDistinct ==
  \A i, j \in 1..Len(inserted) : i # j => inserted[i].id # inserted[j].id

\* what the code does keep (not a claim): two entries share an id only when
\* they were logged in the same clock tick with the same random suffix
IdsDistinctAcrossTicks ==
  \A i, j \in 1..Len(inserted) :
    inserted[i].timestamp # inserted[j].timestamp => inserted[i].id # inserted[j].id

----------------------------------------------------------------------------
(* ComplianceService: validateAll and isCompliant *)

\* the number of audit entries of one run of the validating operations
MaxComplianceEntries == 4

\* Array.from(this.policies.values())
getAllPolicies(map) == [i \in 1..Len(map) |-> map[i].value]

\* every entry pushed through AuditLogger.log in turn
RECURSIVE PushAll(_, _, _)
PushAll(entries, pushed, max) ==
  IF pushed = <<>>
    THEN entries
    ELSE PushAll(trimLogs(Append(entries, Head(pushed)), max), Tail(pushed), max)

\* validate is handed policy.id, not the key: the number of leading policies
\* of the list it finds in the map (the first it misses throws)
FoundPrefix(map) ==
  LET all == getAllPolicies(map)
      missing == {i \in 1..Len(all) : ~Has(map, all[i].id)}
  IN IF missing = {}
       THEN Len(all)
       ELSE (CHOOSE i \in missing : \A j \in missing : i <= j) - 1

\* (mutant) the policies validated newest first
validationsNewestFirst(map, data, userId, t, rs) ==
  LET all == getAllPolicies(map)
  IN [i \in 1..FoundPrefix(map) |->
        LET k == Len(all) + 1 - i
            report == validatePolicy(MapGet(map, all[k].id), data, t)
        IN [report |-> report,
            entry  |-> Entry(generateId(t, rs[i]), t, "validate", "policy", all[k].id, userId,
                             ValidateDetails(report))]]

\* getAllPolicies().map(policy => this.validate(policy.id, data, userId)):
\* the report and the audit entry of each validate call, in call order
validations(map, data, userId, t, rs) ==
  LET all == getAllPolicies(map)
  IN [i \in 1..FoundPrefix(map) |->
        LET report == validatePolicy(MapGet(map, all[i].id), data, t)
        IN [report |-> report,
            entry  |-> Entry(generateId(t, rs[i]), t, "validate", "policy", all[i].id, userId,
                             ValidateDetails(report))]]

EntriesOf(done) == [i \in 1..Len(done) |-> done[i].entry]

ReportsOf(done) == [i \in 1..Len(done) |-> done[i].report]

validateAll(data, userId, rs) ==
  LET done == validations(policies, data, userId, now, rs)
  IN /\ logs' = PushAll(logs, EntriesOf(done), maxLogSize)
     /\ inserted' = inserted \o EntriesOf(done)
     /\ IF Len(done) = Len(policies)
          THEN /\ last' = Call("validateAll", NoId, userId, "ok", NoId)
               /\ returned' = Returned(data, ReportsOf(done))
          ELSE /\ last' = Call("validateAll", NoId, userId, "NotFound", NoId)
               /\ returned' = NoReturn
     /\ UNCHANGED policies

\* the leading validations up to and including the first that is not passing
UpToFirstFailing(done) ==
  LET failing == {i \in 1..Len(done) : ~isPolicyPassing(done[i].report)}
  IN IF failing = {}
       THEN done
       ELSE SubSeq(done, 1, CHOOSE i \in failing : \A j \in failing : i <= j)

\* (mutant) isCompliant stopping at the first policy that is not passing
isCompliantShortCircuiting(data, userId, rs) ==
  LET done == UpToFirstFailing(validations(policies, data, userId, now, rs))
  IN /\ logs' = PushAll(logs, EntriesOf(done), maxLogSize)
     /\ inserted' = inserted \o EntriesOf(done)
     /\ last' = Call("isCompliant", NoId, userId, "ok", NoId)
     /\ returned' = Returned(data, Bool(\A i \in 1..Len(done) : isPolicyPassing(done[i].report)))
     /\ UNCHANGED policies

\* (mutant) isCompliant that wants at least one report
isCompliantNeedingAPolicy(data, userId, rs) ==
  LET done == validations(policies, data, userId, now, rs)
  IN /\ logs' = PushAll(logs, EntriesOf(done), maxLogSize)
     /\ inserted' = inserted \o EntriesOf(done)
     /\ IF Len(done) = Len(policies)
          THEN /\ last' = Call("isCompliant", NoId, userId, "ok", NoId)
               /\ returned' = Returned(data, Bool(/\ Len(done) > 0
                                                  /\ \A i \in 1..Len(done) :
                                                       isPolicyPassing(done[i].report)))
          ELSE /\ last' = Call("isCompliant", NoId, userId, "NotFound", NoId)
               /\ returned' = NoReturn
     /\ UNCHANGED policies

\* reports = this.validateAll(data, userId); reports.every(isPolicyPassing)
isCompliant(data, userId, rs) ==
  LET done == validations(policies, data, userId, now, rs)
  IN /\ logs' = PushAll(logs, EntriesOf(done), maxLogSize)
     /\ inserted' = inserted \o EntriesOf(done)
     /\ IF Len(done) = Len(policies)
          THEN /\ last' = Call("isCompliant", NoId, userId, "ok", NoId)
               /\ returned' = Returned(data, Bool(\A i \in 1..Len(done) :
                                                    isPolicyPassing(done[i].report)))
          ELSE /\ last' = Call("isCompliant", NoId, userId, "NotFound", NoId)
               /\ returned' = NoReturn
     /\ UNCHANGED policies

\* the validating operations write one entry per registered policy
CanLogAll == Len(inserted) + Len(policies) <= MaxComplianceEntries

RegisterValidPolicy ==
  /\ Len(inserted) < MaxComplianceEntries
  /\ \E policyInput \in ValidDocs, userId \in UserIds, r \in RandomSuffixes :
       registerPolicy(policyInput, userId, r)
  /\ returned' = NoReturn
  /\ UNCHANGED <<now, maxLogSize>>
  /\ UNCHANGED valVars

ValidateAll ==
  /\ CanLogAll
  /\ \E data \in {DataActive, DataInactive}, userId \in UserIds,
        rs \in [1..Len(policies) -> RandomSuffixes] :
       validateAll(data, userId, rs)
  /\ UNCHANGED <<now, maxLogSize>>
  /\ UNCHANGED valVars

IsCompliant ==
  /\ CanLogAll
  /\ \E data \in {DataActive, DataInactive}, userId \in UserIds,
        rs \in [1..Len(policies) -> RandomSuffixes] :
       isCompliant(data, userId, rs)
  /\ UNCHANGED <<now, maxLogSize>>
  /\ UNCHANGED valVars

ComplianceNext ==
  \/ RegisterValidPolicy
  \/ ValidateAll
  \/ IsCompliant

\* the service under registrations and the validating operations only
ComplianceSpec == Init /\ [][ComplianceNext]_vars

----------------------------------------------------------------------------
(* Properties of validateAll and isCompliant (under ComplianceSpec) *)

\* the report of this policy for this record counts no critical and no high failure
NoCriticalNoHighFailure(policy, data) ==
  LET summary == validatePolicy(policy, data, now).summary
  IN summary.criticalFailures = 0 /\ summary.highFailures = 0

\* C12: isCompliant(record, userId) returns true exactly when the report of
\* every registered policy for the record counts no critical and no high
\* failure; medium and low failures do not make it false.
C12_CompliantIffEveryPolicyPassing ==
  [][(IsCall("isCompliant") /\ last'.outcome = "ok") =>
       returned'.value = Bool(\A i \in 1..Len(policies) :
                                NoCriticalNoHighFailure(policies[i].value, returned'.data))]_vars

\* isCompliant returned true although a registered policy counts a medium failure
C12_Witness ==
  /\ last.op = "isCompliant"
  /\ returned.value = Bool(TRUE)
  /\ \E i \in 1..Len(policies) :
       validatePolicy(policies[i].value, returned.data, now).summary.mediumFailures > 0

\* C13: with N policies registered one isCompliant call appends exactly N
\* validate entries, one per registered policy, also when the first policy
\* validated is already failing.
C13_CompliantValidatesEveryPolicy ==
  [][IsCall("isCompliant") =>
       /\ Len(inserted') = Len(inserted) + Len(policies)
       /\ SubSeq(inserted', 1, Len(inserted)) = inserted
       /\ \A i \in 1..Len(policies) :
            /\ inserted'[Len(inserted) + i].action = "validate"
            /\ inserted'[Len(inserted) + i].resourceId = policies[i].key]_vars

\* isCompliant returned false for two policies of which the first is failing,
\* and the last two entries are the two validate entries
C13_Witness ==
  /\ last.op = "isCompliant"
  /\ returned.value = Bool(FALSE)
  /\ Len(policies) = 2
  /\ ~NoCriticalNoHighFailure(policies[1].value, returned.data)
  /\ Len(inserted) = 4
  /\ inserted[3].action = "validate" /\ inserted[3].resourceId = policies[1].key
  /\ inserted[4].action = "validate" /\ inserted[4].resourceId = policies[2].key

\* C14: validateAll returns one report per registered policy, in the order
\* getAllPolicies lists the policies, and appends its validate entries in
\* that same order.
C14_ValidateAllInMapOrder ==
  [][(IsCall("validateAll") /\ last'.outcome = "ok") =>
       LET all == getAllPolicies(policies)
       IN /\ Len(returned'.value) = Len(all)
          /\ Len(inserted') = Len(inserted) + Len(all)
          /\ SubSeq(inserted', 1, Len(inserted)) = inserted
          /\ \A i \in 1..Len(all) :
               /\ returned'.value[i].policyId = all[i].id
               /\ returned'.value[i].policyName = all[i].name
               /\ inserted'[Len(inserted) + i].action = "validate"
               /\ inserted'[Len(inserted) + i].resourceId = all[i].id]_vars

\* validateAll returned the reports of two policies, and the first passes
\* where the second does not
C14_Witness ==
  /\ last.op = "validateAll"
  /\ last.outcome = "ok"
  /\ Len(policies) = 2
  /\ Len(returned.value) = 2
  /\ returned.value[1].policyId # returned.value[2].policyId
  /\ isPolicyPassing(returned.value[1])
  /\ ~isPolicyPassing(returned.value[2])

----------------------------------------------------------------------------
(* More properties of the service (under Spec) *)

\* C15: the validate entry appended by validate(id, record, userId) carries
\* details.passed = isPolicyPassing(report), details.totalRules =
\* report.summary.total and details.failedRules = report.summary.failed for
\* the very report returned to the caller.
C15_ValidateEntryDescribesReport ==
  [][(IsCall("validate") /\ last'.outcome = "ok") =>
       LET e == inserted'[Len(inserted')]
           report == returned'.value
       IN /\ Len(inserted') = Len(inserted) + 1
          /\ report = validatePolicy(MapGet(policies, last'.policyId), returned'.data, now)
          /\ e.action = "validate"
          /\ e.resourceId = report.policyId
          /\ e.details = {<<"passed", Bool(isPolicyPassing(report))>>,
                          <<"totalRules", Num(report.summary.total)>>,
                          <<"failedRules", Num(report.summary.failed)>>}]_vars

\* validate returned a passing report that counts a failure, and the entry
\* says passed with one failed rule
C15_Witness ==
  /\ last.op = "validate"
  /\ last.outcome = "ok"
  /\ isPolicyPassing(returned.value)
  /\ returned.value.summary.failed = 1
  /\ <<"passed", Bool(TRUE)>> \in inserted[Len(inserted)].details
  /\ <<"failedRules", Num(1)>> \in inserted[Len(inserted)].details

----------------------------------------------------------------------------
(* Properties of validateRule (under ValidatorSpec) *)

\* the failure counter of a summary for one severity
FailureCounter(summary, sev) ==
  CASE sev = "critical" -> summary.criticalFailures
    [] sev = "high"     -> summary.highFailures
    [] sev = "medium"   -> summary.mediumFailures
    [] OTHER            -> summary.lowFailures

\* the rules of a policy that are enabled, by position
EnabledRules(policy) == {i \in 1..Len(policy.rules) : policy.rules[i].enabled}

\* C16: a rule with enabled = false gets passed = true and the message
\* "Rule is disabled" for every record, so no failure counter of a report
\* counts a disabled rule, whatever its severity.
C16_DisabledRulePassesUncounted ==
  FromValidatePolicy =>
    /\ \A i \in 1..Len(vPolicy.rules) :
         ~vPolicy.rules[i].enabled =>
           /\ vReport.results[i].passed
           /\ vReport.results[i].message = <<"Rule is disabled">>
    /\ vReport.summary.failed <= Cardinality(EnabledRules(vPolicy))
    /\ \A sev \in {"critical", "high", "medium", "low"} :
         FailureCounter(vReport.summary, sev) <=
           Cardinality({i \in EnabledRules(vPolicy) : vPolicy.rules[i].severity = sev})

\* a report without failures for a policy with a disabled critical rule whose
\* condition the record does not meet
C16_Witness ==
  /\ FromValidatePolicy
  /\ vReport.summary.failed = 0
  /\ \E i \in 1..Len(vPolicy.rules) :
       /\ ~vPolicy.rules[i].enabled
       /\ vPolicy.rules[i].severity = "critical"
       /\ \E k \in 1..Len(vPolicy.rules[i].conditions) :
            ~evaluateCondition(vPolicy.rules[i].conditions[k], vData)

\* C17: an enabled rule passes exactly when every one of its conditions
\* evaluates to true on the record; with no conditions it passes.
C17_EnabledRuleIsConjunction ==
  FromValidatePolicy =>
    \A i \in EnabledRules(vPolicy) :
      LET conditions == vPolicy.rules[i].conditions
      IN /\ vReport.results[i].passed =
              (\A k \in 1..Len(conditions) : evaluateCondition(conditions[k], vData))
         /\ conditions = <<>> => vReport.results[i].passed

\* an enabled rule failed although its first condition holds, next to an
\* enabled rule without conditions that passed
C17_Witness ==
  /\ FromValidatePolicy
  /\ \E i, j \in EnabledRules(vPolicy) :
       /\ Len(vPolicy.rules[i].conditions) = 2
       /\ evaluateCondition(vPolicy.rules[i].conditions[1], vData)
       /\ ~vReport.results[i].passed
       /\ vPolicy.rules[j].conditions = <<>>
       /\ vReport.results[j].passed

----------------------------------------------------------------------------
(* The condition evaluator alone: evaluateCondition applied to a condition *)
(* and a record drawn by the initial state                                 *)

\* a record with a null, a numeric string and a null object
DataOdd == Obj({<<sStatus, Null>>, <<sScore, Str(<<"2">>)>>, <<sUser, Null>>})

ConditionRecords == Records \cup {DataOdd}

\* field paths: top level, nested, absent, through a string, an object
ConditionFields ==
  {sStatus, sScore, sUserRole, sUser, Chars("missing"), Chars("status.x")}

\* the seven operators and one the evaluator does not know
ConditionOperators ==
  {validOperators[i] : i \in 1..Len(validOperators)} \cup {"startsWith"}

ConditionValues ==
  { Str(sActive), Str(<<"a", "c", "t">>), Str(<<>>), Str(<<"2">>), Num(1), Num(2),
    Bool(TRUE), Null, Undefined, RegExp(<<"a", "c", "t">>), Obj({}) }

Conditions ==
  {Cond(field, operator, value) :
     field \in ConditionFields, operator \in ConditionOperators, value \in ConditionValues}

ConditionInit ==
  /\ ServiceIdle
  /\ vPolicy = NoValue
  /\ vReport = NoValue
  /\ vVerdict = FALSE
  /\ vPc = "condition"
  /\ vCondition \in Conditions
  /\ vData \in ConditionRecords
  /\ vResult = NoValue

EvaluateConditionCall ==
  /\ vPc = "condition"
  /\ vResult' = Bool(evaluateCondition(vCondition, vData))
  /\ vPc' = "evaluated"
  /\ UNCHANGED <<vPolicy, vData, vReport, vVerdict, vCondition>>
  /\ UNCHANGED svcVars

ConditionNext == EvaluateConditionCall

ConditionSpec == ConditionInit /\ [][ConditionNext]_vars

----------------------------------------------------------------------------
(* Properties of evaluateCondition (under ConditionSpec) *)

\* the value of the condition's field in the record
FieldValue == getFieldValue(vData, vCondition.field)

\* needle occurs in hay at some offset
IsSubstring(needle, hay) ==
  \E i \in 0..Len(hay) :
    /\ i + Len(needle) <= Len(hay)
    /\ \A k \in 1..Len(needle) : hay[i + k] = needle[k]

BothStrings == FieldValue.kind = "string" /\ vCondition.value.kind = "string"

BothNumbers == FieldValue.kind = "number" /\ vCondition.value.kind = "number"

\* C18: contains is the substring test when field value and operand are both
\* strings and false otherwise; notContains is the negated substring test
\* when both are strings and true when either is not a string, an absent
\* field included.
C18_ContainsAndNotContains ==
  vPc = "evaluated" =>
    /\ vCondition.operator = "contains" =>
         vResult = Bool(BothStrings /\ IsSubstring(vCondition.value.s, FieldValue.s))
    /\ vCondition.operator = "notContains" =>
         vResult = Bool(~BothStrings \/ ~IsSubstring(vCondition.value.s, FieldValue.s))

\* notContains with a string operand came out true for an absent field
C18_Witness ==
  /\ vPc = "evaluated"
  /\ vCondition.operator = "notContains"
  /\ vCondition.value.kind = "string"
  /\ FieldValue = Undefined
  /\ vResult = Bool(TRUE)

\* C19: on the same field, operand and record notEquals is the negation of
\* equals, and equals is equality of type and value; records without the
\* field included.
C19_NotEqualsNegatesEquals ==
  vPc = "evaluated" =>
    /\ vCondition.operator = "notEquals" =>
         vResult = Bool(~evaluateCondition([vCondition EXCEPT !.operator = "equals"], vData))
    /\ vCondition.operator = "equals" =>
         vResult = Bool(/\ FieldValue.kind = vCondition.value.kind
                        /\ FieldValue.kind \in {"undefined", "null", "boolean", "number", "string"}
                        /\ FieldValue = vCondition.value)

\* notEquals came out true for an absent field and a string operand
C19_Witness ==
  /\ vPc = "evaluated"
  /\ vCondition.operator = "notEquals"
  /\ FieldValue = Undefined
  /\ vCondition.value.kind = "string"
  /\ vResult = Bool(TRUE)

\* C20: the evaluator returns a boolean for every condition and record;
\* greaterThan and lessThan are false unless field value and operand are both
\* numbers, matches is false unless the field value is a string and the
\* operand a pattern, and an operator outside the seven known is false.
C20_EvaluatorIsTotal ==
  vPc = "evaluated" =>
    /\ vResult.kind = "boolean"
    /\ vCondition.operator = "greaterThan" =>
         vResult.b = (BothNumbers /\ FieldValue.n > vCondition.value.n)
    /\ vCondition.operator = "lessThan" =>
         vResult.b = (BothNumbers /\ FieldValue.n < vCondition.value.n)
    /\ (/\ vCondition.operator = "matches"
        /\ ~(FieldValue.kind = "string" /\ vCondition.value.kind = "regexp")) => ~vResult.b
    /\ vCondition.operator \notin {validOperators[i] : i \in 1..Len(validOperators)} =>
         ~vResult.b

\* lessThan came out false for a numeric string under a larger number
C20_Witness ==
  /\ vPc = "evaluated"
  /\ vCondition.operator = "lessThan"
  /\ FieldValue = Str(<<"2">>)
  /\ vCondition.value = Num(2)
  /\ vResult = Bool(FALSE)

\* the parts of a field path, cut at the dots
PathParts(field) ==
  LET dots == {i \in 1..Len(field) : field[i] = "."}
  IN IF dots = {}
       THEN <<field>>
       ELSE LET d == CHOOSE i \in dots : \A j \in dots : i <= j
            IN <<SubSeq(field, 1, d - 1), SubSeq(field, d + 1, Len(field))>>

\* the own property of an object value, the absent value where there is none
\* or where the value is null, absent or a primitive
PropertyOf(value, key) ==
  IF value.kind \in {"undefined", "null", "boolean", "number", "string"}
    THEN Undefined
    ELSE IF \E p \in value.o : p[1] = key
      THEN (CHOOSE p \in value.o : p[1] = key)[2]
      ELSE Undefined

\* what the record holds under the condition's field path (of one or two parts)
HeldUnderPath ==
  LET parts == PathParts(vCondition.field)
  IN IF Len(parts) = 1
       THEN PropertyOf(vData, parts[1])
       ELSE PropertyOf(PropertyOf(vData, parts[1]), parts[2])

ConcreteOperand == vCondition.value.kind \in {"string", "number", "boolean"}

----------------------------------------------------------------------------
(* More properties of the policy validator (under ValidatorSpec) *)

\* C22: validatePolicy returns one ValidationResult per rule of the policy,
\* in the order of policy.rules, each with the ruleId, ruleName and severity
\* of its rule, and the report carries the policy's id and name.
C22_OneResultPerRuleInOrder ==
  FromValidatePolicy =>
    /\ vReport.policyId = vPolicy.id
    /\ vReport.policyName = vPolicy.name
    /\ Len(vReport.results) = Len(vPolicy.rules)
    /\ \A i \in 1..Len(vPolicy.rules) :
         /\ vReport.results[i].ruleId = vPolicy.rules[i].id
         /\ vReport.results[i].ruleName = vPolicy.rules[i].name
         /\ vReport.results[i].severity = vPolicy.rules[i].severity

\* a report for two rules of different severities, the second more severe
C22_Witness ==
  /\ FromValidatePolicy
  /\ Len(vPolicy.rules) = 2
  /\ vPolicy.rules[1].severity = "low"
  /\ vPolicy.rules[2].severity = "critical"
  /\ vReport.results[1].ruleId = <<"r", "low">>
  /\ vReport.results[2].ruleId = <<"r", "critical">>

\* the positions of the failed results of a report
FailedPositions(report) == {i \in 1..Len(report.results) : ~report.results[i].passed}

\* the position in the results of the k-th failed result
KthFailed(report, k) ==
  CHOOSE i \in FailedPositions(report) :
    Cardinality({j \in FailedPositions(report) : j <= i}) = k

\* C23: getFailedRules(report) returns exactly the results with passed =
\* false in their original relative order; for a report of validatePolicy
\* its length is summary.failed.
C23_FailedRulesStableFilter ==
  vPc = "filtered" =>
    /\ Len(vResult.a) = Cardinality(FailedPositions(vReport))
    /\ \A k \in 1..Len(vResult.a) : vResult.a[k] = vReport.results[KthFailed(vReport, k)]
    /\ vData.kind = "object" => Len(vResult.a) = vReport.summary.failed

\* two failed rules of different severities, returned in the order of the results
C23_Witness ==
  /\ vPc = "filtered"
  /\ Len(vResult.a) = 2
  /\ vResult.a[1].severity # vResult.a[2].severity
  /\ vResult.a[1] = vReport.results[1]
  /\ vReport.summary.failed = 2

----------------------------------------------------------------------------
(* The audit logger and its callers: log, clear and the queries called     *)
(* directly, and callers changing what these calls handed them             *)

\* the number of direct log calls of one run of the logger with its queries
MaxQueryCalls == 2

\* an object a caller holds: `ref` tells whose object it is ("fresh": made by
\* the call and held by the caller alone; "logs": the logger's own list;
\* "entry": the entry the logger stored last), `content` what it holds
Ref(ref, content) == [ref |-> ref, content |-> content]

\* the truthiness of a value, as `if (value)` reads it
Truthy(v) ==
  CASE v.kind \in {"undefined", "null"} -> FALSE
    [] v.kind = "boolean"               -> v.b
    [] v.kind = "number"                -> v.n # 0
    [] v.kind = "string"                -> v.s # <<>>
    [] OTHER                            -> TRUE

\* (mutant) getLogs with an exclusive end bound
getLogsBeforeEnd(entries, startDate, endDate) ==
  LET afterStart == IF Truthy(startDate)
                      THEN SelectSeq(entries, LAMBDA log : log.timestamp >= startDate.n)
                      ELSE entries
      filtered   == IF Truthy(endDate)
                      THEN SelectSeq(afterStart, LAMBDA log : log.timestamp < endDate.n)
                      ELSE afterStart
  IN Ref("fresh", filtered)

\* (mutant) getLogs handing out the logger's own list when no bound is given
getLogsSharingTheList(entries, startDate, endDate) ==
  LET afterStart == IF Truthy(startDate)
                      THEN SelectSeq(entries, LAMBDA log : log.timestamp >= startDate.n)
                      ELSE entries
      filtered   == IF Truthy(endDate)
                      THEN SelectSeq(afterStart, LAMBDA log : log.timestamp <= endDate.n)
                      ELSE afterStart
  IN Ref(IF Truthy(startDate) \/ Truthy(endDate) THEN "fresh" ELSE "logs", filtered)

\* getLogs: a copy of the list, filtered by each bound that is given
getLogs(entries, startDate, endDate) ==
  LET afterStart == IF Truthy(startDate)
                      THEN SelectSeq(entries, LAMBDA log : log.timestamp >= startDate.n)
                      ELSE entries
      filtered   == IF Truthy(endDate)
                      THEN SelectSeq(afterStart, LAMBDA log : log.timestamp <= endDate.n)
                      ELSE afterStart
  IN Ref("fresh", filtered)

getLogsForResource(entries, resourceType, resourceId) ==
  Ref("fresh", SelectSeq(entries, LAMBDA log : /\ log.resourceType = resourceType
                                               /\ log.resourceId = resourceId))

getLogsForUser(entries, userId) ==
  Ref("fresh", SelectSeq(entries, LAMBDA log : log.userId = userId))

\* the four actions of an audit entry
AuditActions == {"validate", "create", "update", "delete"}

\* (mutant) counts for the actions that occur in the log only
getActionCountsOfStoredActions(entries) ==
  Ref("fresh", {<<a, Num(Cardinality({i \in 1..Len(entries) : entries[i].action = a}))>> :
                  a \in {entries[i].action : i \in 1..Len(entries)}})

\* getActionCounts: the counts object, as <<action, count>> pairs
getActionCounts(entries) ==
  Ref("fresh", {<<a, Num(Cardinality({i \in 1..Len(entries) : entries[i].action = a}))>> :
                  a \in AuditActions})

\* Date.prototype.toJSON: the ISO text of the instant
ToISOString(t) == <<"t">> \o Digits(t)

\* what JSON.stringify writes for a value: a Date as its ISO text, a pattern
\* as an empty object, an undefined property not at all, an undefined element
\* as null
RECURSIVE JsonOf(_)
JsonOf(v) ==
  CASE v.kind = "date"   -> Str(ToISOString(v.n))
    [] v.kind = "regexp" -> Obj({})
    [] v.kind = "object" ->
         Obj({<<p[1], JsonOf(p[2])>> : p \in {q \in v.o : q[2].kind # "undefined"}})
    [] v.kind = "array"  ->
         Arr([i \in 1..Len(v.a) |->
                IF v.a[i].kind = "undefined" THEN Null ELSE JsonOf(v.a[i])])
    [] OTHER             -> v

\* export: JSON.stringify(this.logs, null, 2), as the document the text holds
export(entries) ==
  Ref("fresh", [i \in 1..Len(entries) |->
                  [id           |-> entries[i].id,
                   timestamp    |-> ToISOString(entries[i].timestamp),
                   action       |-> entries[i].action,
                   resourceType |-> entries[i].resourceType,
                   resourceId   |-> entries[i].resourceId,
                   userId       |-> entries[i].userId,
                   details      |-> JsonOf(Obj(entries[i].details)).o]])

\* the arguments of the direct log calls: action, resourceType, resourceId,
\* userId, details
QueryLogArgs ==
  { <<"create",   "policy", p1, u1, {<<"policyName", Str(<<"A">>)>>}>>,
    <<"update",   "policy", p1, u2, {<<"pattern", RegExp(<<"a">>)>>}>>,
    <<"validate", "report", p2, u1, {<<"passed", Bool(TRUE)>>}>>,
    <<"delete",   "rule",   p2, u2, {}>> }

\* the bounds handed to getLogs: none, or a Date
QueryBounds == {Undefined} \cup {DateOf(t) : t \in 0..MaxTime}

\* the capacities of the logger under its queries: one that evicts at the
\* second entry and the constructor's default
QueryCapacities == {1, DefaultMaxLogSize}

\* new AuditLogger(maxLogSize)
QueryInit ==
  /\ now = 0
  /\ policies = <<>>
  /\ logs = <<>>
  /\ maxLogSize \in QueryCapacities
  /\ inserted = <<>>
  /\ last = Call("new", NoId, NoId, "ok", NoId)
  /\ returned = NoReturn
  /\ ValidatorIdle

\* a run ends with a caller's change to what it was handed: the logger is
\* called and asked while no such change was made
CallerIsQuiet == last.op \notin {"changeList", "changeEntry"}

QueryTick ==
  /\ CallerIsQuiet
  /\ now < MaxTime
  /\ now' = now + 1
  /\ UNCHANGED <<policies, logs, maxLogSize, inserted, last, returned>>
  /\ UNCHANGED valVars

\* log(...): the caller receives the very entry that was stored
LogAndReturn ==
  /\ CallerIsQuiet
  /\ Len(inserted) < MaxQueryCalls
  /\ \E args \in QueryLogArgs, r \in RandomSuffixes :
       LET entry == Entry(generateId(now, r), now, args[1], args[2], args[3], args[4], args[5])
       IN /\ Log(entry)
          /\ last' = Call("log", args[3], args[4], "ok", NoId)
          /\ returned' = Returned(args[5], Ref("entry", entry))
  /\ UNCHANGED <<now, policies, maxLogSize>>
  /\ UNCHANGED valVars

\* clear()
Clear ==
  /\ CallerIsQuiet
  /\ logs' = <<>>
  /\ last' = Call("clear", NoId, NoId, "ok", NoId)
  /\ returned' = NoReturn
  /\ UNCHANGED <<now, policies, maxLogSize, inserted>>
  /\ UNCHANGED valVars

GetLogs ==
  /\ CallerIsQuiet
  /\ \E startDate \in QueryBounds, endDate \in QueryBounds :
       /\ last' = Call("getLogs", NoId, NoId, "ok", NoId)
       /\ returned' = Returned(<<startDate, endDate>>, getLogs(logs, startDate, endDate))
  /\ UNCHANGED <<now, policies, logs, maxLogSize, inserted>>
  /\ UNCHANGED valVars

GetLogsForResource ==
  /\ CallerIsQuiet
  /\ \E resourceType \in {"policy", "report"}, resourceId \in PolicyIds :
       /\ last' = Call("getLogsForResource", resourceId, NoId, "ok", NoId)
       /\ returned' = Returned(<<resourceType, resourceId>>,
                               getLogsForResource(logs, resourceType, resourceId))
  /\ UNCHANGED <<now, policies, logs, maxLogSize, inserted>>
  /\ UNCHANGED valVars

GetLogsForUser ==
  /\ CallerIsQuiet
  /\ \E userId \in UserIds :
       /\ last' = Call("getLogsForUser", NoId, userId, "ok", NoId)
       /\ returned' = Returned(<<userId>>, getLogsForUser(logs, userId))
  /\ UNCHANGED <<now, policies, logs, maxLogSize, inserted>>
  /\ UNCHANGED valVars

GetActionCounts ==
  /\ CallerIsQuiet
  /\ last' = Call("getActionCounts", NoId, NoId, "ok", NoId)
  /\ returned' = Returned(<<>>, getActionCounts(logs))
  /\ UNCHANGED <<now, policies, logs, maxLogSize, inserted>>
  /\ UNCHANGED valVars

Export ==
  /\ CallerIsQuiet
  /\ last' = Call("export", NoId, NoId, "ok", NoId)
  /\ returned' = Returned(<<>>, export(logs))
  /\ UNCHANGED <<now, policies, logs, maxLogSize, inserted>>
  /\ UNCHANGED valVars

\* an entry a caller makes up
ForgedEntry == Entry(<<"forged">>, 0, "delete", "policy", p1, u1, {})

\* what a caller does to a list it holds: push, shift or reverse
ChangedList(list, change) ==
  CASE change = "push"  -> Append(list, ForgedEntry)
    [] change = "shift" -> IF list = <<>> THEN list ELSE Tail(list)
    [] OTHER            -> [i \in 1..Len(list) |-> list[Len(list) + 1 - i]]

\* the caller changes the list a query returned; the logger's list changes
\* with it exactly when the caller holds the logger's own list
ChangeReturnedList ==
  /\ last.op \in {"getLogs", "getLogsForResource", "getLogsForUser"}
  /\ \E change \in {"push", "shift", "reverse"} :
       LET changed == ChangedList(returned.value.content, change)
       IN /\ changed # returned.value.content
          /\ returned' = Returned(returned.data, Ref(returned.value.ref, changed))
          /\ logs' = IF returned.value.ref = "logs" THEN changed ELSE logs
  /\ last' = Call("changeList", NoId, NoId, last.op, NoId)
  /\ UNCHANGED <<now, policies, maxLogSize, inserted>>
  /\ UNCHANGED valVars

\* what a caller does to an entry it holds: another user id, or a property
\* added to the details map (the map it passed to log)
ChangedEntry(entry, change) ==
  IF change = "userId"
    THEN [entry EXCEPT !.userId = <<"x">>]
    ELSE [entry EXCEPT !.details = @ \cup {<<"added", Bool(TRUE)>>}]

\* the caller changes the entry log returned; the stored entry is the same
\* object
ChangeReturnedEntry ==
  /\ last.op = "log"
  /\ \E change \in {"userId", "details"} :
       LET changed == ChangedEntry(returned.value.content, change)
       IN /\ returned' = Returned(returned.data, Ref(returned.value.ref, changed))
          /\ logs' = IF returned.value.ref = "entry"
                       THEN [logs EXCEPT ![Len(logs)] = changed]
                       ELSE logs
  /\ last' = Call("changeEntry", NoId, NoId, last.op, NoId)
  /\ UNCHANGED <<now, policies, maxLogSize, inserted>>
  /\ UNCHANGED valVars

QueryNext ==
  \/ QueryTick
  \/ LogAndReturn
  \/ Clear
  \/ GetLogs
  \/ GetLogsForResource
  \/ GetLogsForUser
  \/ GetActionCounts
  \/ Export
  \/ ChangeReturnedList
  \/ ChangeReturnedEntry

QuerySpec == QueryInit /\ [][QueryNext]_vars

----------------------------------------------------------------------------
(* Properties of the logger's queries (under QuerySpec) *)

\* the k-th smallest position of a set of positions
KthOf(positions, k) ==
  CHOOSE i \in positions : Cardinality({j \in positions : j <= i}) = k

\* out lists the entries of the stored log at these positions, in stored order
ListsPositions(out, positions) ==
  /\ Len(out) = Cardinality(positions)
  /\ \A k \in 1..Len(out) : out[k] = logs[KthOf(positions, k)]

\* C24: getLogs(start, end) returns, in stored order, exactly the entries
\* with start <= timestamp <= end, both bounds inclusive; an omitted bound
\* does not restrict its side, and without bounds every stored entry is
\* returned.
C24_GetLogsInclusiveRange ==
  last.op = "getLogs" =>
    LET startDate == returned.data[1]
        endDate   == returned.data[2]
        inRange   == {i \in 1..Len(logs) :
                        /\ startDate.kind = "date" => startDate.n <= logs[i].timestamp
                        /\ endDate.kind = "date" => logs[i].timestamp <= endDate.n}
    IN /\ ListsPositions(returned.value.content, inRange)
       /\ (startDate = Undefined /\ endDate = Undefined) => returned.value.content = logs

\* getLogs from 1 to 1 returned the entry stamped 1 and not the one stamped 0
C24_Witness ==
  /\ last.op = "getLogs"
  /\ returned.data = <<DateOf(1), DateOf(1)>>
  /\ Len(logs) = 2
  /\ logs[1].timestamp = 0
  /\ logs[2].timestamp = 1
  /\ returned.value.content = <<logs[2]>>

\* the operations that only read the log
QueryOps == {"getLogs", "getLogsForResource", "getLogsForUser", "getActionCounts", "export"}

\* C25: getLogs, getLogsForResource, getLogsForUser, getActionCounts and
\* export never change the stored log, and a caller adding to, removing from
\* or reordering a list they returned does not change the stored log either.
C25_QueriesReturnNewLists ==
  [][last'.op \in QueryOps \cup {"changeList"} => logs' = logs]_vars

\* a caller reversed the two entries getLogs() had returned and the stored
\* log kept its order
C25_Witness ==
  /\ last.op = "changeList"
  /\ last.outcome = "getLogs"
  /\ Len(logs) = 2
  /\ logs[1] # logs[2]
  /\ returned.value.content = <<logs[2], logs[1]>>

\* C26: the entry returned by log is a copy: a caller changing a field of the
\* returned entry, or the details map it passed in, does not change the
\* entry held in the log.
C26_ReturnedEntryIsACopy ==
  [][last'.op = "changeEntry" => logs' = logs]_vars

\* this step pushed one entry behind the entries that stay, and the entries
\* that left were at the front; or it is clear; or the log is as it was
AppendOnlyStep ==
  IF inserted' # inserted
    THEN /\ Len(inserted') = Len(inserted) + 1
         /\ \E evicted \in 0..Len(logs) :
              logs' = Append(SubSeq(logs, evicted + 1, Len(logs)), inserted'[Len(inserted')])
    ELSE \/ logs' = logs
         \/ last'.op = "clear" /\ logs' = <<>>

\* C27: the audit log is append-only: no operation of the logger or the
\* service changes a stored entry or the relative order of the entries that
\* stay; entries leave only at the front, by eviction, or by clear.
C27_LogIsAppendOnly ==
  [][last'.op \notin {"changeList", "changeEntry"} => AppendOnlyStep]_vars

\* the second log call evicted the first entry
C27_Witness ==
  /\ last.op = "log"
  /\ Len(inserted) = 2
  /\ inserted[1] # inserted[2]
  /\ logs = <<inserted[2]>>

\* the number of stored entries with this action
StoredWithAction(a) == Cardinality({i \in 1..Len(logs) : logs[i].action = a})

\* C28: getActionCounts returns a count for each of validate, create, update
\* and delete, zero included, equal to the number of stored entries with
\* that action; the four counts sum to the size of the log.
C28_ActionCountsAreComplete ==
  last.op = "getActionCounts" =>
    LET counts == returned.value.content
        CountOf(a) == (CHOOSE p \in counts : p[1] = a)[2].n
    IN /\ {p[1] : p \in counts} = AuditActions
       /\ Cardinality(counts) = 4
       /\ \A a \in AuditActions : CountOf(a) = StoredWithAction(a)
       /\ CountOf("validate") + CountOf("create") + CountOf("update") + CountOf("delete")
            = Len(logs)

\* counts of two stored entries: one create, one validate, no update, no delete
C28_Witness ==
  /\ last.op = "getActionCounts"
  /\ Len(logs) = 2
  /\ returned.value.content =
       {<<"validate", Num(1)>>, <<"create", Num(1)>>, <<"update", Num(0)>>, <<"delete", Num(0)>>}

IsJsonValue(v) == v.kind \in {"null", "boolean", "number", "string"}

\* what export does keep (not a claim): length, order, action and resourceId
\* always, and the details whose values are all JSON values
ExportKeepsJsonDetails ==
  last.op = "export" =>
    LET parsed == returned.value.content
    IN /\ Len(parsed) = Len(logs)
       /\ \A i \in 1..Len(logs) :
            /\ parsed[i].action = logs[i].action
            /\ parsed[i].resourceId = logs[i].resourceId
            /\ (\A p \in logs[i].details : IsJsonValue(p[2])) =>
                 parsed[i].details = logs[i].details

----------------------------------------------------------------------------
(* The registry through the life of a policy id: every operation of the    *)
(* service, on few documents and for one user                              *)

\* the number of audit entries of one run of the registry
MaxRegistryEntries == 3

\* this.policies.get(policyId)
getPolicy(policyId) ==
  /\ last' = Call("getPolicy", policyId, NoId, "ok", NoId)
  /\ returned' = Returned(NoValue, IF Has(policies, policyId)
                                     THEN MapGet(policies, policyId)
                                     ELSE Undefined)
  /\ UNCHANGED <<policies, logs, inserted>>

\* the documents handed to the registry: two for p1, one for p2, one the
\* parser rejects
RegistryDocs ==
  {DocA(p1), DocB(p1), DocA(p2), Obj({<<kId, Str(p1)>>, <<kRules, Arr(<<>>)>>})}

CanLogInRegistry == Len(inserted) < MaxRegistryEntries

RegistryTick ==
  /\ CanLogInRegistry
  /\ now < MaxTime
  /\ now' = now + 1
  /\ UNCHANGED <<policies, logs, maxLogSize, inserted, last, returned>>
  /\ UNCHANGED valVars

RegistryRegister ==
  /\ CanLogInRegistry
  /\ \E policyInput \in RegistryDocs, r \in RandomSuffixes :
       registerPolicy(policyInput, u1, r)
  /\ returned' = NoReturn
  /\ UNCHANGED <<now, maxLogSize>>
  /\ UNCHANGED valVars

RegistryUpdate ==
  /\ CanLogInRegistry
  /\ \E policyId \in PolicyIds, policyInput \in RegistryDocs, r \in RandomSuffixes :
       updatePolicy(policyId, policyInput, u1, r)
  /\ returned' = NoReturn
  /\ UNCHANGED <<now, maxLogSize>>
  /\ UNCHANGED valVars

RegistryDelete ==
  /\ CanLogInRegistry
  /\ \E policyId \in PolicyIds, r \in RandomSuffixes :
       deletePolicy(policyId, u1, r)
  /\ returned' = NoReturn
  /\ UNCHANGED <<now, maxLogSize>>
  /\ UNCHANGED valVars

RegistryGet ==
  /\ CanLogInRegistry
  /\ \E policyId \in PolicyIds : getPolicy(policyId)
  /\ UNCHANGED <<now, maxLogSize>>
  /\ UNCHANGED valVars

\* this.getAllPolicies()
RegistryGetAll ==
  /\ CanLogInRegistry
  /\ last' = Call("getAllPolicies", NoId, NoId, "ok", NoId)
  /\ returned' = Returned(NoValue, getAllPolicies(policies))
  /\ UNCHANGED <<policies, logs, inserted>>
  /\ UNCHANGED <<now, maxLogSize>>
  /\ UNCHANGED valVars

RegistryValidate ==
  /\ CanLogInRegistry
  /\ \E policyId \in PolicyIds, r \in RandomSuffixes :
       validate(policyId, DataInactive, u1, r)
  /\ UNCHANGED <<now, maxLogSize>>
  /\ UNCHANGED valVars

RegistryValidateAll ==
  /\ CanLogInRegistry
  /\ Len(inserted) + Len(policies) <= MaxRegistryEntries
  /\ \E rs \in [1..Len(policies) -> RandomSuffixes] :
       validateAll(DataInactive, u1, rs)
  /\ UNCHANGED <<now, maxLogSize>>
  /\ UNCHANGED valVars

RegistryIsCompliant ==
  /\ CanLogInRegistry
  /\ Len(inserted) + Len(policies) <= MaxRegistryEntries
  /\ \E rs \in [1..Len(policies) -> RandomSuffixes] :
       isCompliant(DataInactive, u1, rs)
  /\ UNCHANGED <<now, maxLogSize>>
  /\ UNCHANGED valVars

RegistryNext ==
  \/ RegistryTick
  \/ RegistryRegister
  \/ RegistryUpdate
  \/ RegistryDelete
  \/ RegistryGet
  \/ RegistryGetAll
  \/ RegistryValidate
  \/ RegistryValidateAll
  \/ RegistryIsCompliant

RegistrySpec == Init /\ [][RegistryNext]_vars

----------------------------------------------------------------------------
(* Properties of the life of a policy id (under RegistrySpec) *)

\* this step is a call of op about this policy id that ended this way
IsCallAbout(op, policyId, outcome) ==
  /\ IsCall(op)
  /\ last'.policyId = policyId
  /\ last'.outcome = outcome

\* C30: a policy id goes absent -> registered -> (updated)* -> absent: only
\* registerPolicy takes an id from absent to registered, only deletePolicy
\* takes it back, updatePolicy keeps it registered and nothing else moves
\* it; after a delete getPolicy returns absent and registerPolicy with the
\* same id succeeds as a fresh registration.
C30_PolicyIdLifecycle ==
  [][\A id \in PolicyIds :
       /\ (~Has(policies, id) /\ Has(policies', id)) => IsCallAbout("registerPolicy", id, "ok")
       /\ (Has(policies, id) /\ ~Has(policies', id)) => IsCallAbout("deletePolicy", id, "true")
       /\ IsCallAbout("registerPolicy", id, "ok") =>
            /\ ~Has(policies, id)
            /\ policies'[Len(policies')].key = id
            /\ \E policyInput \in RegistryDocs :
                 /\ ~parseThrows(policyInput)
                 /\ policies'[Len(policies')].value = parsePolicy(policyInput, now)
       /\ IsCallAbout("registerPolicy", id, "DuplicateId") => Has(policies, id)
       /\ IsCallAbout("updatePolicy", id, "ok") => (Has(policies, id) /\ Has(policies', id))
       /\ IsCallAbout("deletePolicy", id, "true") => (Has(policies, id) /\ ~Has(policies', id))
       /\ IsCallAbout("getPolicy", id, "ok") =>
            IF Has(policies, id)
              THEN returned'.value = MapGet(policies, id)
              ELSE returned'.value = Undefined]_vars

\* p1 was registered, deleted and registered again, later than the first
\* time, and the stored policy was created at the second registration
C30_Witness ==
  /\ last = Call("registerPolicy", p1, u1, "ok", NoId)
  /\ Len(inserted) = 3
  /\ inserted[1].action = "create" /\ inserted[1].resourceId = p1
  /\ inserted[2].action = "delete" /\ inserted[2].resourceId = p1
  /\ inserted[3].action = "create" /\ inserted[3].resourceId = p1
  /\ inserted[1].timestamp < inserted[3].timestamp
  /\ Has(policies, p1)
  /\ MapGet(policies, p1).createdAt = inserted[3].timestamp

----------------------------------------------------------------------------
(* The policy parser alone: parseRule applied to a raw rule drawn by the   *)
(* initial state                                                           *)

\* a property of a raw document, left out when it has no value
Prop(key, value) == IF value = Undefined THEN {} ELSE {<<key, value>>}

\* raw severities: missing, two levels, an unknown word, a level in capitals,
\* a number, null
RawSeverities ==
  { Undefined, Str(Chars("critical")), Str(Chars("low")), Str(Chars("urgent")),
    Str(Chars("HIGH")), Num(1), Null }

\* raw enabled values: missing, the two booleans, null, the word false, zero
RawEnabled == {Undefined, Bool(FALSE), Bool(TRUE), Null, Str(Chars("false")), Num(0)}

\* raw operators: missing, two known ones, an unknown word, a number
RawOperators ==
  {Undefined, Str(Chars("equals")), Str(Chars("matches")), Str(Chars("regex")), Num(1)}

\* a raw condition on status with this operator
RawCondition(operator) ==
  Obj({<<kField, Str(sStatus)>>, <<kValue, Str(sActive)>>} \cup Prop(kOperator, operator))

\* raw conditions values: missing, a string, lists of no element, of
\* malformed elements only, of one condition, and of a condition between
\* malformed elements
RawConditionLists ==
  { Undefined, Str(Chars("none")), Arr(<<>>), Arr(<<Num(1), Str(sStatus), Null>>) }
    \cup {Arr(<<RawCondition(operator)>>) : operator \in RawOperators}
    \cup {Arr(<<Num(1), RawCondition(operator), Null, RawCondition(Str(Chars("notEquals")))>>) :
            operator \in RawOperators}

RawRules ==
  { Obj({<<kId, Str(<<"r", "1">>)>>, <<kName, Str(<<"R">>)>>}
          \cup Prop(kSeverity, severity) \cup Prop(kEnabled, enabled)
          \cup Prop(kConditions, conditions)) :
      severity \in RawSeverities, enabled \in RawEnabled, conditions \in RawConditionLists }
    \cup {Num(1), Null, Obj({<<kId, Str(<<"r", "1">>)>>})}

ParserInit ==
  /\ ServiceIdle
  /\ vPolicy = NoValue
  /\ vReport = NoValue
  /\ vVerdict = FALSE
  /\ vCondition = NoValue
  /\ vPc = "raw"
  /\ vData \in RawRules
  /\ vResult = NoValue

\* parseRule(vData, index): the rule, or the thrown error
ParseRuleCall ==
  /\ vPc = "raw"
  /\ IF ruleThrows(vData)
       THEN /\ vPc' = "rejected"
            /\ vResult' = NoValue
       ELSE /\ vPc' = "parsed"
            /\ vResult' = parseRule(vData)
  /\ UNCHANGED <<vPolicy, vData, vReport, vVerdict, vCondition>>
  /\ UNCHANGED svcVars

ParserNext == ParseRuleCall

ParserSpec == ParserInit /\ [][ParserNext]_vars

----------------------------------------------------------------------------
(* Properties of the parser (under ParserSpec) *)

FourLevels == {"critical", "high", "medium", "low"}

SevenOperators ==
  {"equals", "notEquals", "contains", "notContains", "greaterThan", "lessThan", "matches"}

\* the word a raw value spells, if it is one of these words, else the default
WordOr(raw, words, default) ==
  IF \E w \in words : raw = Str(Chars(w))
    THEN CHOOSE w \in words : raw = Str(Chars(w))
    ELSE default

\* the positions of the raw conditions list that hold an object
ObjectPositions(raw) ==
  IF raw.kind = "array"
    THEN {i \in 1..Len(raw.a) : raw.a[i].kind \in {"object", "array", "regexp", "date"}}
    ELSE {}

\* C33: the normalizer applies the defaults to every rule and condition it
\* accepts: a missing or invalid severity becomes medium, a missing enabled
\* becomes true and an explicit false stays false, a missing or invalid
\* operator becomes equals; severities are among the four levels and
\* operators among the seven known.
C33_ParserAppliesDefaults ==
  vPc = "parsed" =>
    LET rawConditions == Get(vData, kConditions)
        kept == ObjectPositions(rawConditions)
    IN /\ vResult.severity = WordOr(Get(vData, kSeverity), FourLevels, "medium")
       /\ vResult.severity \in FourLevels
       /\ Get(vData, kEnabled) = Undefined => vResult.enabled = TRUE
       /\ Get(vData, kEnabled) = Bool(FALSE) => vResult.enabled = FALSE
       /\ Len(vResult.conditions) = Cardinality(kept)
       /\ \A k \in 1..Len(vResult.conditions) :
            /\ vResult.conditions[k].operator =
                 WordOr(Get(rawConditions.a[KthOf(kept, k)], kOperator), SevenOperators, "equals")
            /\ vResult.conditions[k].operator \in SevenOperators

\* a rule with an unknown severity word, no enabled value and a condition
\* with an unknown operator word was parsed to medium, enabled, equals
C33_Witness ==
  /\ vPc = "parsed"
  /\ Get(vData, kSeverity) = Str(Chars("urgent"))
  /\ Get(vData, kEnabled) = Undefined
  /\ Get(vData, kConditions) = Arr(<<RawCondition(Str(Chars("regex")))>>)
  /\ vResult.severity = "medium"
  /\ vResult.enabled = TRUE
  /\ vResult.conditions[1].operator = "equals"

\* C40: the normalizer drops every element of a conditions list that is not
\* an object, and reads a missing or non-list conditions value as empty,
\* without failing; an enabled rule with only malformed conditions has no
\* condition and passes for every record.
C40_MalformedConditionsAreDropped ==
  vPc = "parsed" =>
    LET rawConditions == Get(vData, kConditions)
        kept == ObjectPositions(rawConditions)
    IN /\ Len(vResult.conditions) = Cardinality(kept)
       /\ \A k \in 1..Len(vResult.conditions) :
            LET rawCondition == rawConditions.a[KthOf(kept, k)]
            IN /\ vResult.conditions[k].field = Get(rawCondition, kField).s
               /\ vResult.conditions[k].value = Get(rawCondition, kValue)
       /\ (kept = {} /\ vResult.enabled) =>
            /\ vResult.conditions = <<>>
            /\ \A data \in ConditionRecords : validateRule(vResult, data).passed

\* an enabled rule whose conditions list holds a number, a string and null
\* was parsed to a rule without conditions
C40_Witness ==
  /\ vPc = "parsed"
  /\ Get(vData, kConditions) = Arr(<<Num(1), Str(sStatus), Null>>)
  /\ vResult.enabled
  /\ vResult.conditions = <<>>
  /\ \A data \in ConditionRecords : validateRule(vResult, data).passed

----------------------------------------------------------------------------
(* The service over a logger whose log may throw: the constructor takes    *)
(* any AuditLogger, and no handler catches what its log call throws        *)

\* the number of audit entries of one run over the throwing logger
MaxAuditFailureEntries == 1

\* this.auditLogger.log(...) throws: nothing is appended, the statements
\* behind the call do not run and the error reaches the caller
auditLoggerThrows(op, policyId, userId) ==
  /\ last' = Call(op, policyId, userId, "AuditFailure", NoId)
  /\ returned' = NoReturn
  /\ UNCHANGED <<logs, inserted>>

\* registerPolicy when log throws: the policy was stored before the call
registerPolicyLogThrowing(policyInput, userId) ==
  /\ ~parseThrows(policyInput)
  /\ LET policy == parsePolicy(policyInput, now)
     IN /\ ~Has(policies, policy.id)
        /\ policies' = MapSet(policies, policy.id, policy)
        /\ auditLoggerThrows("registerPolicy", policy.id, userId)

\* updatePolicy when log throws: the policy was replaced before the call
updatePolicyLogThrowing(policyId, policyInput, userId) ==
  /\ Has(policies, policyId)
  /\ ~parseThrows(policyInput)
  /\ policies' = MapSet(policies, policyId, updatedPolicy(policyId, policyInput, now))
  /\ auditLoggerThrows("updatePolicy", policyId, userId)

\* deletePolicy when log throws: the policy was removed before the call
deletePolicyLogThrowing(policyId, userId) ==
  /\ Has(policies, policyId)
  /\ policies' = MapDelete(policies, policyId)
  /\ auditLoggerThrows("deletePolicy", policyId, userId)

\* validate when log throws: the report was computed and is not returned
validateLogThrowing(policyId, data, userId) ==
  /\ Has(policies, policyId)
  /\ UNCHANGED policies
  /\ auditLoggerThrows("validate", policyId, userId)

\* the documents handed to the service: two for p1 and one the parser
\* rejects
AuditFailureDocs == {DocA(p1), DocB(p1), Obj({<<kId, Str(p1)>>, <<kRules, Arr(<<>>)>>})}

CanLogOrThrow == Len(inserted) < MaxAuditFailureEntries

AuditFailureTick ==
  /\ CanLogOrThrow
  /\ now < MaxTime
  /\ now' = now + 1
  /\ UNCHANGED <<policies, logs, maxLogSize, inserted, last, returned>>
  /\ UNCHANGED valVars

AuditFailureRegister ==
  /\ CanLogOrThrow
  /\ \E policyInput \in AuditFailureDocs, r \in RandomSuffixes :
       \/ registerPolicy(policyInput, u1, r) /\ returned' = NoReturn
       \/ registerPolicyLogThrowing(policyInput, u1)
  /\ UNCHANGED <<now, maxLogSize>>
  /\ UNCHANGED valVars

AuditFailureUpdate ==
  /\ CanLogOrThrow
  /\ \E policyId \in PolicyIds, policyInput \in AuditFailureDocs, r \in RandomSuffixes :
       \/ updatePolicy(policyId, policyInput, u1, r) /\ returned' = NoReturn
       \/ updatePolicyLogThrowing(policyId, policyInput, u1)
  /\ UNCHANGED <<now, maxLogSize>>
  /\ UNCHANGED valVars

AuditFailureDelete ==
  /\ CanLogOrThrow
  /\ \E policyId \in PolicyIds, r \in RandomSuffixes :
       \/ deletePolicy(policyId, u1, r) /\ returned' = NoReturn
       \/ deletePolicyLogThrowing(policyId, u1)
  /\ UNCHANGED <<now, maxLogSize>>
  /\ UNCHANGED valVars

AuditFailureValidate ==
  /\ CanLogOrThrow
  /\ \E policyId \in PolicyIds, r \in RandomSuffixes :
       \/ validate(policyId, DataInactive, u1, r)
       \/ validateLogThrowing(policyId, DataInactive, u1)
  /\ UNCHANGED <<now, maxLogSize>>
  /\ UNCHANGED valVars

AuditFailureNext ==
  \/ AuditFailureTick
  \/ AuditFailureRegister
  \/ AuditFailureUpdate
  \/ AuditFailureDelete
  \/ AuditFailureValidate

AuditFailureSpec == Init /\ [][AuditFailureNext]_vars

----------------------------------------------------------------------------
(* Properties of the service over a throwing logger (under                 *)
(* AuditFailureSpec)                                                       *)

\* C31: a failure of the audit append during registerPolicy, updatePolicy,
\* deletePolicy or validate does not keep the operation from completing and
\* returning its result: a registration or update that changed the map
\* returns the policy, a delete of a registered id returns true and a
\* validate of a registered id returns its report.
C31_AuditFailureDoesNotStopTheOperation ==
  [][/\ (IsCall("registerPolicy") /\ policies' # policies) => last'.outcome = "ok"
     /\ (IsCall("updatePolicy") /\ policies' # policies) => last'.outcome = "ok"
     /\ (IsCall("deletePolicy") /\ Has(policies, last'.policyId)) => last'.outcome = "true"
     /\ (IsCall("validate") /\ Has(policies, last'.policyId)) =>
          /\ last'.outcome = "ok"
          /\ returned'.value = validatePolicy(MapGet(policies, last'.policyId),
                                              DataInactive, now)]_vars

----------------------------------------------------------------------------
(* Properties of rejected input (under RegistrySpec) *)

\* the documents of the registry that the parser rejects
MalformedDocs == {policyInput \in RegistryDocs : parseThrows(policyInput)}

\* this step is registerPolicy called with this document
IsRegisterOf(policyInput) ==
  /\ IsCall("registerPolicy")
  /\ \E r \in RandomSuffixes : registerPolicy(policyInput, u1, r)

\* this step is updatePolicy called with this id and this document
IsUpdateOf(policyId, policyInput) ==
  /\ IsCall("updatePolicy")
  /\ \E r \in RandomSuffixes : updatePolicy(policyId, policyInput, u1, r)

\* C32: when the normalizer rejects the raw input, registerPolicy and
\* updatePolicy (of a registered id) end with InvalidInput and leave the
\* policy map and the audit log unchanged; for update the stored record
\* stays in place.
C32_InvalidInputChangesNothing ==
  [][/\ \A policyInput \in MalformedDocs :
          /\ IsRegisterOf(policyInput) =>
               (last'.outcome = "InvalidInput" /\ MapAndLogUnchanged)
          /\ \A policyId \in PolicyIds :
               (Has(policies, policyId) /\ IsUpdateOf(policyId, policyInput)) =>
                 /\ last'.outcome = "InvalidInput"
                 /\ MapAndLogUnchanged
                 /\ MapGet(policies', policyId) = MapGet(policies, policyId)
     /\ ((IsCall("registerPolicy") \/ IsCall("updatePolicy"))
           /\ last'.outcome = "InvalidInput") => MapAndLogUnchanged]_vars

\* an update of the registered p1 was rejected as invalid input; p1 is still
\* stored as registered and the log holds the registration only
C32_Witness ==
  /\ last = Call("updatePolicy", p1, NoId, "InvalidInput", NoId)
  /\ Has(policies, p1)
  /\ \E policyInput \in RegistryDocs :
       /\ ~parseThrows(policyInput)
       /\ MapGet(policies, p1) = parsePolicy(policyInput, inserted[1].timestamp)
  /\ Len(inserted) = 1
  /\ logs = inserted
  /\ inserted[1].action = "create"

\* C39: updatePolicy checks existence before it normalizes: with an
\* unregistered id and malformed input it ends with NotFound, not
\* InvalidInput; registerPolicy normalizes first: malformed input ends with
\* InvalidInput whichever ids are registered.
C39_UpdateChecksExistenceFirst ==
  [][\A policyInput \in MalformedDocs :
       /\ \A policyId \in PolicyIds :
            (~Has(policies, policyId) /\ IsUpdateOf(policyId, policyInput)) =>
              last'.outcome = "NotFound"
       /\ IsRegisterOf(policyInput) => last'.outcome = "InvalidInput"]_vars

\* an update of the unregistered p2 ended with NotFound while p1, the id the
\* malformed document carries, is registered
C39_Witness ==
  /\ last = Call("updatePolicy", p2, NoId, "NotFound", NoId)
  /\ ~Has(policies, p2)
  /\ Has(policies, p1)
  /\ \E policyInput \in MalformedDocs : Get(policyInput, kId) = Str(p1)

----------------------------------------------------------------------------
(* Properties of the registry against its audit log (under RegistrySpec)   *)

\* the positions of the entries pushed for this policy id
EntriesAbout(policyId) == {i \in 1..Len(inserted) : inserted[i].resourceId = policyId}

\* the positions of the entries that wrote a record for this policy id
WritesOf(policyId) ==
  {i \in EntriesAbout(policyId) : inserted[i].action \in {"create", "update"}}

Latest(positions) == CHOOSE i \in positions : \A j \in positions : j <= i

\* the log holds every entry pushed so far: none evicted, none cleared
NothingEvicted == logs = inserted

\* C34: operations apply one after the other in one order: the record
\* stored for a policy id is the one written by the registration or update
\* whose audit entry is the latest for that id, so after two updates of one
\* id the later entry's update is the one stored.
C34_StoredRecordIsTheLatestWrite ==
  \A policyId \in PolicyIds :
    Has(policies, policyId) =>
      /\ WritesOf(policyId) # {}
      /\ LET entry == inserted[Latest(WritesOf(policyId))]
             stored == MapGet(policies, policyId)
         IN /\ entry.details = PolicyDetails(stored)
            /\ stored.updatedAt = entry.timestamp \/ entry.action = "create"
            /\ \E policyInput \in RegistryDocs :
                 /\ ~parseThrows(policyInput)
                 /\ stored = IF entry.action = "create"
                               THEN parsePolicy(policyInput, entry.timestamp)
                               ELSE updatedPolicy(policyId, policyInput, entry.timestamp)

\* p1 was updated twice with documents of different names; the stored name
\* is the one in the later update entry
C34_Witness ==
  /\ Len(inserted) = 3
  /\ \A i \in {2, 3} : inserted[i].action = "update" /\ inserted[i].resourceId = p1
  /\ inserted[2].details # inserted[3].details
  /\ Has(policies, p1)
  /\ <<"policyName", Str(MapGet(policies, p1).name)>> \in inserted[3].details
  /\ <<"policyName", Str(MapGet(policies, p1).name)>> \notin inserted[2].details

\* C35: while nothing was evicted or cleared, the entries about one policy
\* id read (create (update | validate)* delete)* and then an optional
\* unfinished create (update | validate)*: a create follows nothing or a
\* delete, any other entry follows an entry that is no delete, and the id is
\* registered exactly when its entries are not empty and do not end in
\* delete.
C35_EntriesOfAnIdFollowItsLife ==
  NothingEvicted =>
    \A policyId \in PolicyIds :
      LET about == {i \in 1..Len(logs) : logs[i].resourceId = policyId}
      IN /\ \A i \in about :
              LET before == {j \in about : j < i}
              IN IF logs[i].action = "create"
                   THEN before # {} => logs[Latest(before)].action = "delete"
                   ELSE /\ logs[i].action \in {"update", "validate", "delete"}
                        /\ before # {}
                        /\ logs[Latest(before)].action # "delete"
         /\ Has(policies, policyId) <=>
              (about # {} /\ logs[Latest(about)].action # "delete")

\* the log holds create, update and delete of p1, nothing evicted, and p1 is
\* not registered
C35_Witness ==
  /\ NothingEvicted
  /\ Len(logs) = 3
  /\ \A i \in 1..3 : logs[i].resourceId = p1
  /\ logs[1].action = "create"
  /\ logs[2].action = "update"
  /\ logs[3].action = "delete"
  /\ ~Has(policies, p1)

\* the number of entries of the log with this action
CountOfAction(action) == Cardinality({i \in 1..Len(logs) : logs[i].action = action})

\* C36: while nothing was evicted or cleared, the number of registered
\* policies is the number of create entries minus the number of delete
\* entries, after any calls, successful or failing.
C36_PoliciesAreCreatesMinusDeletes ==
  NothingEvicted => Len(policies) = CountOfAction("create") - CountOfAction("delete")

\* one create and one delete in the log, no policy registered, and the last
\* call was an update that failed with NotFound
C36_Witness ==
  /\ NothingEvicted
  /\ CountOfAction("create") = 1
  /\ CountOfAction("delete") = 1
  /\ policies = <<>>
  /\ last.op = "updatePolicy"
  /\ last.outcome = "NotFound"

ReadingOps == {"validate", "validateAll", "isCompliant", "getPolicy", "getAllPolicies"}

\* C38: validate, validateAll, isCompliant, getPolicy and getAllPolicies
\* never change the policy map; with no policy registered validateAll
\* returns an empty list, isCompliant returns true and neither appends an
\* audit entry.
C38_ReadingOperationsKeepTheMap ==
  [][/\ (\E op \in ReadingOps : IsCall(op)) => policies' = policies
     /\ (IsCall("validateAll") /\ policies = <<>>) =>
          /\ last'.outcome = "ok"
          /\ returned'.value = <<>>
          /\ logs' = logs /\ inserted' = inserted
     /\ (IsCall("isCompliant") /\ policies = <<>>) =>
          /\ last'.outcome = "ok"
          /\ returned'.value = Bool(TRUE)
          /\ logs' = logs /\ inserted' = inserted]_vars

\* isCompliant was called with no policy registered, after a registration
\* and a delete: it returned true and the log holds those two entries only
C38_Witness ==
  /\ last.op = "isCompliant"
  /\ policies = <<>>
  /\ returned.value = Bool(TRUE)
  /\ Len(inserted) = 2
  /\ inserted[2].action = "delete"

----------------------------------------------------------------------------
(* The order of the registry: registrations, updates, deletes and          *)
(* getAllPolicies, long enough for a policy to be registered a second time *)
(* beside another                                                          *)

\* the number of audit entries of one run
MaxOrderEntries == 4

\* the documents handed to the registry: two for p1, one for p2
OrderDocs == {DocA(p1), DocB(p1), DocA(p2)}

CanLogInOrder == Len(inserted) < MaxOrderEntries

OrderRegister ==
  /\ CanLogInOrder
  /\ \E policyInput \in OrderDocs, r \in RandomSuffixes :
       registerPolicy(policyInput, u1, r)
  /\ returned' = NoReturn
  /\ UNCHANGED <<now, maxLogSize>>
  /\ UNCHANGED valVars

OrderUpdate ==
  /\ CanLogInOrder
  /\ \E policyId \in PolicyIds, policyInput \in OrderDocs, r \in RandomSuffixes :
       updatePolicy(policyId, policyInput, u1, r)
  /\ returned' = NoReturn
  /\ UNCHANGED <<now, maxLogSize>>
  /\ UNCHANGED valVars

OrderDelete ==
  /\ CanLogInOrder
  /\ \E policyId \in PolicyIds, r \in RandomSuffixes :
       deletePolicy(policyId, u1, r)
  /\ returned' = NoReturn
  /\ UNCHANGED <<now, maxLogSize>>
  /\ UNCHANGED valVars

\* this.getAllPolicies()
OrderGetAll ==
  /\ last' = Call("getAllPolicies", NoId, NoId, "ok", NoId)
  /\ returned' = Returned(NoValue, getAllPolicies(policies))
  /\ UNCHANGED <<policies, logs, inserted>>
  /\ UNCHANGED <<now, maxLogSize>>
  /\ UNCHANGED valVars

OrderNext ==
  \/ OrderRegister
  \/ OrderUpdate
  \/ OrderDelete
  \/ OrderGetAll

OrderSpec == Init /\ [][OrderNext]_vars

----------------------------------------------------------------------------
(* Properties of the order of the registry (under OrderSpec) *)

KeysInOrder(map) == [i \in 1..Len(map) |-> map[i].key]

Without(keys, key) == SelectSeq(keys, LAMBDA k : k # key)

\* the position of the entry of the current registration of this policy id
CurrentRegistration(policyId) ==
  Latest({i \in 1..Len(inserted) :
            inserted[i].action = "create" /\ inserted[i].resourceId = policyId})

\* C37: getAllPolicies lists the registered policies in the order of their
\* current registration: updatePolicy keeps a policy at its position,
\* deletePolicy removes it and keeps the order of the others, and a policy
\* registered again after a delete goes to the end of the list.
C37_ListedInRegistrationOrder ==
  [][/\ \A policyId \in PolicyIds :
          /\ IsCallAbout("updatePolicy", policyId, "ok") =>
               KeysInOrder(policies') = KeysInOrder(policies)
          /\ IsCallAbout("deletePolicy", policyId, "true") =>
               KeysInOrder(policies') = Without(KeysInOrder(policies), policyId)
          /\ IsCallAbout("registerPolicy", policyId, "ok") =>
               KeysInOrder(policies') = Append(Without(KeysInOrder(policies), policyId), policyId)
     /\ IsCall("getAllPolicies") =>
          LET listed == returned'.value
          IN /\ Len(listed) = Len(policies)
             /\ \A i \in 1..Len(listed) :
                  /\ Has(policies, listed[i].id)
                  /\ listed[i] = MapGet(policies, listed[i].id)
             /\ \A i, j \in 1..Len(listed) :
                  i < j => CurrentRegistration(listed[i].id) < CurrentRegistration(listed[j].id)]_vars

\* p1 was registered before p2, deleted and registered again: getAllPolicies
\* lists p2 before p1
C37_Witness ==
  /\ last.op = "getAllPolicies"
  /\ Len(inserted) = 4
  /\ inserted[1].action = "create" /\ inserted[1].resourceId = p1
  /\ inserted[2].action = "create" /\ inserted[2].resourceId = p2
  /\ inserted[3].action = "delete" /\ inserted[3].resourceId = p1
  /\ inserted[4].action = "create" /\ inserted[4].resourceId = p1
  /\ Len(returned.value) = 2
  /\ returned.value[1].id = p2
  /\ returned.value[2].id = p1

====
